---- MODULE Spec2Model ----
(***************************************************************************)
(* Model of fairseq2's gang layer (src/src/fairseq2/gang.py): the gang     *)
(* objects, the splitting of a root gang into data and tensor parallel     *)
(* gangs, the bootstrap of the default process group, the selection of the *)
(* default device and the readers of the launcher's environment variables. *)
(***************************************************************************)
EXTENDS Integers, Sequences, FiniteSets, TLC

\* ------------------------------------------------------------------ bounds

\* Largest root gang (number of processes) of the splitting specification.
MaxN == 8

\* ------------------------------------------------------- values and gangs

\* Python's None where a process group handle is expected.
NoPG == -1
\* dist.group.WORLD, the handle of the default process group.
WORLD == 0
\* GroupMember.NON_GROUP_MEMBER, what dist.new_group returns to a process
\* whose rank is not in the new group.
NON_GROUP_MEMBER == -2

\* fairseq2.typing.CPU and Device("cuda", index=i).
CPU == [type |-> "cpu", index |-> -1]
CudaDevice(i) == [type |-> "cuda", index |-> i]

\* Python's None where a gang is expected.
NoGang == [kind |-> "none", oid |-> -1, rank |-> -1, size |-> -1,
           device |-> CPU, pg |-> NoPG, debug_pg |-> NoPG]

\* AbstractGang.__init__: the three fields every gang carries.  oid is the
\* identity of the Python object.
AbstractGang(kind, oid, rank, size, device) ==
    [kind |-> kind, oid |-> oid, rank |-> rank, size |-> size,
     device |-> device, pg |-> NoPG, debug_pg |-> NoPG]

\* FakeGang.__init__ with an explicit device: rank 0, size 1.
FakeGang(oid, device) == AbstractGang("fake", oid, 0, 1, device)

\* dist.get_rank(pg): the position of the calling process in the group's
\* rank list, -1 for a process that is not a member.
RECURSIVE IndexOf(_, _, _)
IndexOf(ranks, r, k) ==
    IF k > Len(ranks) THEN -1
    ELSE IF ranks[k] = r THEN k - 1
    ELSE IndexOf(ranks, r, k + 1)

dist_get_rank(ranks, me) == IndexOf(ranks, me, 1)

\* dist.get_world_size(pg): the group's size, -1 for a non-member.
dist_get_world_size(ranks, me) ==
    IF dist_get_rank(ranks, me) = -1 THEN -1 ELSE Len(ranks)

\* ProcessGroupGang.__init__: rank and size come from the backend group.
ProcessGroupGang(oid, pg, ranks, me, device, debug_pg) ==
    [AbstractGang("pg", oid, dist_get_rank(ranks, me), dist_get_world_size(ranks, me), device)
        EXCEPT !.pg = pg, !.debug_pg = debug_pg]

\* ------------------------------------------------ AbstractGang.create_gang

\* len(set(ranks)) != len(ranks)
HasDuplicates(ranks) ==
    Cardinality({ranks[k] : k \in DOMAIN ranks}) # Len(ranks)

\* The loop of create_gang: some rank is rejected by the bound test.
RankRejected(size, rank) == rank < 0 \/ rank > size

\* The validation of create_gang: "ValueError", or "ok" when the call goes
\* on to _do_create_gang.
create_gang_check(size, ranks) ==
    IF HasDuplicates(ranks) THEN "ValueError"
    ELSE IF \E k \in DOMAIN ranks : RankRejected(size, ranks[k]) THEN "ValueError"
    ELSE "ok"

\* ------------------------------------------------------------ exceptions

\* No exception: the call returned.
NoExc == [type |-> "none", var |-> "", value |-> << >>]

\* An exception of the given Python type whose message names no environment
\* variable.
Exc(type) == [type |-> type, var |-> "", value |-> << >>]

\* An exception whose message names an environment variable and the value it
\* was found to have (as the message prints it).
EnvExc(type, var, value) == [type |-> type, var |-> var, value |-> value]

\* ------------------------------------------------- environment and int()

\* os.environ maps a name to a string, here a sequence of characters; a
\* name that is not set maps to Unset (os.getenv returns None).
Unset == << "<unset>" >>

Digits == << "0", "1", "2", "3", "4", "5", "6", "7", "8", "9" >>

IsDigit(c) == \E d \in DOMAIN Digits : Digits[d] = c
DigitValue(c) == (CHOOSE d \in DOMAIN Digits : Digits[d] = c) - 1

\* The digits of s from position k on, read as a decimal number after acc.
RECURSIVE DecimalValue(_, _, _)
DecimalValue(s, k, acc) ==
    IF k > Len(s) THEN acc
    ELSE DecimalValue(s, k + 1, acc * 10 + DigitValue(s[k]))

HasSign(s) == Len(s) >= 1 /\ s[1] \in {"-", "+"}

\* int(s) succeeds: an optional sign followed by one or more digits.
IsIntLiteral(s) ==
    LET first == IF HasSign(s) THEN 2 ELSE 1
    IN  /\ Len(s) >= first
        /\ \A k \in first..Len(s) : IsDigit(s[k])

\* int(s) for a string int() accepts.
IntOf(s) ==
    IF HasSign(s)
    THEN (IF s[1] = "-" THEN -1 ELSE 1) * DecimalValue(s, 2, 0)
    ELSE DecimalValue(s, 1, 0)

\* The decimal digits of n >= 0.
RECURSIVE NatToStr(_)
NatToStr(n) ==
    IF n < 10 THEN << Digits[n + 1] >>
    ELSE Append(NatToStr(n \div 10), Digits[(n % 10) + 1])

\* str(n), as an f-string prints an int.
IntToStr(n) == IF n < 0 THEN << "-" >> \o NatToStr(-n) ELSE NatToStr(n)

\* The result of a reader of the environment: an exception, None, or a value.
EnvNone == [exc |-> NoExc, none |-> TRUE, value |-> 0]
EnvValue(v) == [exc |-> NoExc, none |-> FALSE, value |-> v]
EnvRaise(exc) == [exc |-> exc, none |-> FALSE, value |-> 0]

\* Mutant of _get_int_from_env: zero is accepted whatever allow_zero says.
_get_int_from_env_zero_ok(e, var_name, allow_zero) ==
    LET checked(value) ==
            IF ~(value >= 0)
            THEN EnvRaise(EnvExc("RuntimeError", var_name, IntToStr(value)))
            ELSE EnvValue(value)
        read(s) ==
            IF s = Unset THEN EnvNone
            ELSE IF ~IsIntLiteral(s) THEN EnvRaise(Exc("UnboundLocalError"))
            ELSE checked(IntOf(s))
    IN  read(e[var_name])

\* _get_int_from_env(var_name, allow_zero) in environment e.  When int(s)
\* raises ValueError the handler builds its message from the local `value`,
\* which is not bound yet: the f-string raises UnboundLocalError and the
\* RuntimeError is never constructed.
_get_int_from_env(e, var_name, allow_zero) ==
    LET checked(value) ==
            IF ~allow_zero /\ ~(value >= 1)
            THEN EnvRaise(EnvExc("RuntimeError", var_name, IntToStr(value)))
            ELSE IF allow_zero /\ ~(value >= 0)
            THEN EnvRaise(EnvExc("RuntimeError", var_name, IntToStr(value)))
            ELSE EnvValue(value)
        read(s) ==
            IF s = Unset THEN EnvNone
            ELSE IF ~IsIntLiteral(s) THEN EnvRaise(Exc("UnboundLocalError"))
            ELSE checked(IntOf(s))
    IN  read(e[var_name])

\* value if the variable is set, else the default.
OrDefault(r, default) == IF r.none THEN EnvValue(default) ELSE r

get_world_size(e) == OrDefault(_get_int_from_env(e, "WORLD_SIZE", FALSE), 1)
get_rank(e) == OrDefault(_get_int_from_env(e, "RANK", TRUE), 0)
get_local_world_size(e) == OrDefault(_get_int_from_env(e, "LOCAL_WORLD_SIZE", FALSE), 1)
get_local_rank(e) == OrDefault(_get_int_from_env(e, "LOCAL_RANK", TRUE), 0)

\* --------------------------------------------------------------- devices

\* Python's None where a device is expected.
NoDevice == [type |-> "none", index |-> -1]

\* The device types Device(...) knows.
DeviceTypes == {"cpu", "cuda", "meta"}

\* Device(device_str) succeeds: "<type>" or "<type>:<index>", the string
\* given as its tokens.
IsDeviceString(s) ==
    \/ Len(s) = 1 /\ s[1] \in DeviceTypes
    \/ Len(s) = 3 /\ s[1] \in DeviceTypes /\ s[2] = ":" /\ IsDigit(s[3])

\* Device(device_str) for a string it accepts.
Device(s) ==
    [type |-> s[1], index |-> IF Len(s) = 3 THEN DigitValue(s[3]) ELSE -1]

\* The result of a device determination: an exception or a device, and the
\* value it leaves in the process-wide cache _default_device.
DevResult(exc, device, cache) == [exc |-> exc, device |-> device, cache |-> cache]

\* Mutant of _get_device_index: without LOCAL_RANK several devices are
\* ambiguous however many processes share the host.
_get_device_index_strict(e, num_devices) ==
    LET index(device_idx, num_procs) ==
            IF ~(num_devices > 0) THEN EnvRaise(Exc("AssertionError"))
            ELSE IF device_idx.exc # NoExc THEN device_idx
            ELSE IF device_idx.none
            THEN IF num_procs.exc # NoExc THEN num_procs
                 ELSE IF num_devices > 1
                 THEN EnvRaise(EnvExc("RuntimeError", "LOCAL_RANK", Unset))
                 ELSE EnvValue(0)
            ELSE IF device_idx.value < 0
            THEN EnvRaise(EnvExc("RuntimeError", "LOCAL_RANK", IntToStr(device_idx.value)))
            ELSE IF device_idx.value >= num_devices
            THEN EnvRaise(EnvExc("RuntimeError", "LOCAL_RANK", IntToStr(device_idx.value)))
            ELSE device_idx
    IN  index(_get_int_from_env(e, "LOCAL_RANK", TRUE), get_local_world_size(e))

\* _get_device_index(num_devices, device_type="cuda") in environment e:
\* an exception or an index, as a reader's result.
_get_device_index(e, num_devices) ==
    LET index(device_idx, num_procs) ==
            IF ~(num_devices > 0) THEN EnvRaise(Exc("AssertionError"))
            ELSE IF device_idx.exc # NoExc THEN device_idx
            ELSE IF device_idx.none
            THEN IF num_procs.exc # NoExc THEN num_procs
                 ELSE IF num_procs.value > 1 /\ num_devices > 1
                 THEN EnvRaise(EnvExc("RuntimeError", "LOCAL_RANK", Unset))
                 ELSE EnvValue(0)
            ELSE IF device_idx.value < 0
            THEN EnvRaise(EnvExc("RuntimeError", "LOCAL_RANK", IntToStr(device_idx.value)))
            ELSE IF device_idx.value >= num_devices
            THEN EnvRaise(EnvExc("RuntimeError", "LOCAL_RANK", IntToStr(device_idx.value)))
            ELSE device_idx
    IN  index(_get_int_from_env(e, "LOCAL_RANK", TRUE), get_local_world_size(e))

\* _determine_default_cuda_device() in environment e with device_count
\* visible CUDA devices: an exception or a device (the cache is not used).
_determine_default_cuda_device(e, device_count) ==
    LET device(visible_devices, idx) ==
            IF visible_devices # Unset /\ IsIntLiteral(visible_devices)
            THEN DevResult(NoExc, CudaDevice(0), NoDevice)
            ELSE IF idx.exc # NoExc THEN DevResult(idx.exc, NoDevice, NoDevice)
            ELSE DevResult(NoExc, CudaDevice(idx.value), NoDevice)
    IN  device(e["CUDA_VISIBLE_DEVICES"], _get_device_index(e, device_count))

\* torch.cuda.set_device(device) succeeds: a device without an index is left
\* alone, an index must name one of the visible devices.
cuda_set_device_ok(device, device_count) ==
    device.index = -1 \/ device.index < device_count

\* The tail of _determine_default_device once _default_device is assigned:
\* a CUDA device is made current, which raises after the assignment if the
\* device does not exist.
set_default_device(device, device_count) ==
    IF device.type = "cuda" /\ ~cuda_set_device_ok(device, device_count)
    THEN DevResult(Exc("RuntimeError"), NoDevice, device)
    ELSE DevResult(NoExc, device, device)

\* _determine_default_device() in environment e, with the cache holding
\* `cache` and device_count visible CUDA devices.
_determine_default_device(e, cache, device_count) ==
    LET device(device_str, cuda) ==
            IF cache # NoDevice THEN DevResult(NoExc, cache, cache)
            ELSE IF device_str # Unset
            THEN IF ~IsDeviceString(device_str)
                 THEN DevResult(EnvExc("RuntimeError", "FAIRSEQ2_DEVICE", device_str),
                                NoDevice, NoDevice)
                 ELSE set_default_device(Device(device_str), device_count)
            ELSE IF device_count > 0
            THEN IF cuda.exc # NoExc THEN DevResult(cuda.exc, NoDevice, NoDevice)
                 ELSE set_default_device(cuda.device, device_count)
            ELSE set_default_device(CPU, device_count)
    IN  device(e["FAIRSEQ2_DEVICE"], _determine_default_cuda_device(e, device_count))

\* Mutant of _get_num_cpus: the share of the cores is not capped by the
\* affinity mask.
_get_num_cpus_uncapped(num_procs, num_cpus, affinity) ==
    IF num_cpus = 0 THEN 1
    ELSE IF num_cpus \div num_procs > 1 THEN num_cpus \div num_procs ELSE 1

\* _get_num_cpus(num_procs) on a host with num_cpus cores (0: os.cpu_count()
\* is None) and an affinity mask of `affinity` cores.
_get_num_cpus(num_procs, num_cpus, affinity) ==
    LET share == IF num_cpus \div num_procs > 1 THEN num_cpus \div num_procs ELSE 1
    IN  IF num_cpus = 0 THEN 1
        ELSE IF share < affinity THEN share ELSE affinity

\* --------------------------------------------- setup_parallel_gangs: mesh

\* torch.arange(size).view(dp_size, tp_size): entry (i, j), 0-based.
mesh(tp_size, i, j) == i * tp_size + j

\* mesh[:, j].tolist()
mesh_column(dp_size, tp_size, j) == [i \in 1..dp_size |-> mesh(tp_size, i - 1, j)]

\* mesh[i, :].tolist()
mesh_row(tp_size, i) == [j \in 1..tp_size |-> mesh(tp_size, i, j - 1)]

\* torch.where(mesh == rank): the (row, column) holding rank.
rank_coords(dp_size, tp_size, rank) ==
    CHOOSE c \in (0..(dp_size - 1)) \X (0..(tp_size - 1)) :
        mesh(tp_size, c[1], c[2]) = rank

\* Mutant of tp_size_check: the divisibility test the wrong way round.
tp_size_check_swapped(size, tp_size) ==
    IF tp_size <= 0 THEN "ValueError"
    ELSE IF tp_size % size # 0 THEN "ValueError"
    ELSE "ok"

\* The two argument checks at the head of setup_parallel_gangs.
tp_size_check(size, tp_size) ==
    IF tp_size <= 0 THEN "ValueError"
    ELSE IF size % tp_size # 0 THEN "ValueError"
    ELSE "ok"

\* ---------------------------------------------------------------- state

VARIABLES
    job,         \* the launched job: root gang size, tp_size argument, backend,
                 \* debug flag and kind of the root gang every process passes
    procs,       \* per process (root rank): position in setup_parallel_gangs,
                 \* loop index, the gangs built so far, the create_gang calls made
    new_groups,  \* the groups dist.new_group has been asked for, in call order:
                 \* handle k is new_groups[k]
    env,         \* os.environ of one process: name -> string, or Unset
    host,        \* what the machine and the launcher fix for one process:
                 \* visible CUDA devices, cores, cores of the affinity mask,
                 \* torch.distributed available, and the size of the job and the
                 \* rank the rendezvous of dist.init_process_group gives it
    default_device,  \* the module global _default_device (NoDevice: None)
    dist,        \* torch.distributed of one process: backend of the default
                 \* group ("none": not initialized), its size and this process's
                 \* rank, the groups made by dist.new_group, and how often
                 \* dist.init_process_group ran and the default group was destroyed
    num_threads, \* torch.get_num_threads(); 0: never set by this module
    gangs,       \* the gang objects one process holds, by identity (oid)
    ret,         \* the last call of one process and its outcome
    mem          \* the tensors and lists one process passes to its gangs:
                 \* storages, the tensor objects on them, the list
                 \* output_tensors and the list objects

parVars == <<job, procs, new_groups>>
bootVars == <<env, host, default_device, dist, num_threads, gangs, ret, mem>>
vars == <<job, procs, new_groups, env, host, default_device, dist, num_threads, gangs, ret,
          mem>>

\* The environment variables the module reads.
EnvNames ==
    {"WORLD_SIZE", "RANK", "LOCAL_WORLD_SIZE", "LOCAL_RANK",
     "FAIRSEQ2_DEVICE", "CUDA_VISIBLE_DEVICES", "OMP_NUM_THREADS"}

\* A process started with none of them set.
EnvEmpty == [n \in EnvNames |-> Unset]

\* torch.distributed before dist.init_process_group.
DistNone ==
    [backend |-> "none", size |-> 0, rank |-> 0, groups |-> << >>,
     live |-> {}, world |-> NoPG, inits |-> 0, destroys |-> 0]

\* No call made yet.  `called` collects the library calls and hooks a call
\* went through; was_initialized is dist.is_initialized() at its start.
RetIdle ==
    [op |-> "none", exc |-> NoExc, gang |-> NoGang, value |-> 0, called |-> {},
     device |-> NoDevice, ranks |-> << >>, ok_initialized |-> FALSE,
     was_initialized |-> FALSE, args |-> << >>]

\* No tensor and no list made yet.
MemNone == [stor |-> << >>, tensors |-> << >>, outputs |-> << >>, objects |-> << >>]

\* The single-process state while the splitting is looked at on its own.
BootIdle ==
    /\ env = EnvEmpty
    /\ host = [cuda_count |-> 0, num_cpus |-> 1, affinity |-> 1, dist_available |-> TRUE,
               size |-> 1, rank |-> 0]
    /\ default_device = NoDevice
    /\ dist = DistNone
    /\ num_threads = 0
    /\ gangs = << >>
    /\ ret = RetIdle
    /\ mem = MemNone

\* The job while one process is looked at on its own.
ParIdle ==
    /\ job = [size |-> 0, tp_size |-> 1, backend |-> "gloo", debug |-> FALSE,
              root |-> "fake"]
    /\ procs = << >>
    /\ new_groups = << >>

Ranks == 0..(job.size - 1)

\* The device a process of the job computes on.
JobDevice == IF job.backend = "nccl" THEN CudaDevice(0) ELSE CPU

\* The rank list behind a process group handle of the job.
GroupRanks(pg) ==
    IF pg = WORLD THEN [k \in 1..job.size |-> k - 1] ELSE new_groups[pg]

\* The root gang object process p passes to setup_parallel_gangs: the world
\* gang, a gang derived from it by create_gang, or a FakeGang (size 1).
RootGang(p) ==
    IF job.root = "fake" THEN FakeGang(0, CPU)
    ELSE LET pg == IF job.root = "world" THEN WORLD ELSE 1
             ranks == [k \in 1..job.size |-> k - 1]
         IN  ProcessGroupGang(0, pg, ranks, p, JobDevice,
                              IF job.debug THEN pg ELSE NoPG)

\* A process that has not entered setup_parallel_gangs yet.
ProcInit ==
    [pc |-> "start", phase |-> "none", i |-> 0, dp |-> NoGang, tp |-> NoGang,
     calls |-> << >>, exc |-> "none", next_oid |-> 1, ngroups |-> 0,
     waiting |-> << >>, new_pg |-> NoPG]

\* ------------------------------------------- setup_parallel_gangs: control

dp_size_of == job.size \div job.tp_size

\* return {"dp": dp_gang, "tp": tp_gang}
Return(st) == [st EXCEPT !.pc = "done", !.phase = "none"]

\* An exception leaves setup_parallel_gangs.
Raise(st, exc) == [st EXCEPT !.pc = "error", !.exc = exc]

\* dist.new_group(ranks, ...): the process enters the collective and blocks
\* in it until every process of the job has entered it too.
new_group_enter(st, ranks) ==
    [st EXCEPT !.pc = "new_group", !.waiting = ranks, !.ngroups = @ + 1]

\* Mutant of _do_create_gang: a gang is derived from any root gang.
_do_create_gang_any_root(p, st, ranks) == new_group_enter(st, ranks)

\* ProcessGroupGang._do_create_gang up to its first dist.new_group.  (A
\* FakeGang root has size 1, so no loop of setup_parallel_gangs ever calls
\* create_gang on it.)
_do_create_gang(p, st, ranks) ==
    IF RootGang(p).pg # WORLD THEN Raise(st, "RuntimeError")
    ELSE new_group_enter(st, ranks)

\* Mutant of OwnIndex: the two mesh coordinates taken for each other.
OwnIndex_swapped(p, phase) ==
    LET c == rank_coords(dp_size_of, job.tp_size, RootGang(p).rank)
    IN  IF phase = "dp" THEN c[1] ELSE c[2]

\* The column (dp loop) or row (tp loop) of process p in the mesh.
OwnIndex(p, phase) ==
    LET c == rank_coords(dp_size_of, job.tp_size, RootGang(p).rank)
    IN  IF phase = "dp" THEN c[2] ELSE c[1]

\* Number of iterations of the loop the process is in.
LoopLen(phase) == IF phase = "dp" THEN job.tp_size ELSE dp_size_of

\* Mutant of LoopRanks: the data parallel loop walks the rows of the mesh
\* and the tensor parallel loop its columns.
LoopRanks_transposed(phase, i) ==
    IF phase = "dp" THEN mesh_row(job.tp_size, i)
    ELSE mesh_column(dp_size_of, job.tp_size, i)

\* The rank list of iteration i of the loop the process is in.
LoopRanks(phase, i) ==
    IF phase = "dp" THEN mesh_column(dp_size_of, job.tp_size, i)
    ELSE mesh_row(job.tp_size, i)

\* Mutant of create_gang: each process builds its own column or row first.
create_gang_own_first(p, st) ==
    LET ranks  == LoopRanks(st.phase, (st.i + OwnIndex(p, st.phase)) % LoopLen(st.phase))
        logged == [st EXCEPT !.calls = Append(@, ranks)]
    IN  IF create_gang_check(RootGang(p).size, ranks) # "ok"
        THEN Raise(logged, "ValueError")
        ELSE _do_create_gang(p, logged, ranks)

\* root_gang.create_gang(...) of the current loop iteration: the call is
\* logged, validated, and handed to _do_create_gang.
create_gang(p, st) ==
    LET ranks  == LoopRanks(st.phase, st.i)
        logged == [st EXCEPT !.calls = Append(@, ranks)]
    IN  IF create_gang_check(RootGang(p).size, ranks) # "ok"
        THEN Raise(logged, "ValueError")
        ELSE _do_create_gang(p, logged, ranks)

\* Mutant of build_tp: the tp_size == root_gang.size test comes first.
build_tp_root_first(p, st) ==
    IF job.tp_size = RootGang(p).size
    THEN Return([st EXCEPT !.tp = RootGang(p)])
    ELSE IF job.tp_size = 1
    THEN Return([st EXCEPT !.tp = FakeGang(st.next_oid, RootGang(p).device),
                           !.next_oid = @ + 1])
    ELSE create_gang(p, [st EXCEPT !.phase = "tp", !.i = 0])

\* Mutant of build_tp: a tensor parallel gang as large as the root is built
\* with create_gang like any other.
build_tp_always_split(p, st) ==
    IF job.tp_size = 1
    THEN Return([st EXCEPT !.tp = FakeGang(st.next_oid, RootGang(p).device),
                           !.next_oid = @ + 1])
    ELSE create_gang(p, [st EXCEPT !.phase = "tp", !.i = 0])

\* "Build the gangs for tensor parallelism."
build_tp(p, st) ==
    IF job.tp_size = 1
    THEN Return([st EXCEPT !.tp = FakeGang(st.next_oid, RootGang(p).device),
                           !.next_oid = @ + 1])
    ELSE IF job.tp_size = RootGang(p).size
    THEN Return([st EXCEPT !.tp = RootGang(p)])
    ELSE create_gang(p, [st EXCEPT !.phase = "tp", !.i = 0])

\* Mutant of build_dp: the degenerate cases told by tp_size, not dp_size.
build_dp_by_tp_size(p, st) ==
    IF job.tp_size = 1
    THEN build_tp(p, [st EXCEPT !.dp = FakeGang(st.next_oid, RootGang(p).device),
                                !.next_oid = @ + 1])
    ELSE IF job.tp_size = RootGang(p).size
    THEN build_tp(p, [st EXCEPT !.dp = RootGang(p)])
    ELSE create_gang(p, [st EXCEPT !.phase = "dp", !.i = 0])

\* "Build the gangs for data parallelism.", then the tensor parallel ones.
build_dp(p, st) ==
    IF dp_size_of = 1
    THEN build_tp(p, [st EXCEPT !.dp = FakeGang(st.next_oid, RootGang(p).device),
                                !.next_oid = @ + 1])
    ELSE IF dp_size_of = RootGang(p).size
    THEN build_tp(p, [st EXCEPT !.dp = RootGang(p)])
    ELSE create_gang(p, [st EXCEPT !.phase = "dp", !.i = 0])

\* The rest of a loop iteration once create_gang has returned sub_gang: keep
\* it if it is this process's own column or row, then go round the loop or on.
loop_step(p, st, sub_gang) ==
    LET kept == IF st.i = OwnIndex(p, st.phase)
                THEN IF st.phase = "dp" THEN [st EXCEPT !.dp = sub_gang]
                     ELSE [st EXCEPT !.tp = sub_gang]
                ELSE st
        next == [kept EXCEPT !.i = @ + 1, !.next_oid = @ + 1,
                             !.waiting = << >>, !.new_pg = NoPG]
    IN  IF next.i < LoopLen(st.phase) THEN create_gang(p, next)
        ELSE IF st.phase = "dp" THEN build_tp(p, next)
        ELSE Return(next)

\* ------------------------------------------------- splitting: the actions

\* Root gang sizes and tp_size arguments the job is launched with.
RootSizes == 1..MaxN
TpSizes == (-1)..(MaxN + 1)

Jobs ==
    {j \in [size : RootSizes, tp_size : TpSizes, backend : {"gloo", "nccl"},
            debug : BOOLEAN, root : {"world", "sub", "fake"}] :
        j.root = "fake" => (j.size = 1 /\ j.backend = "gloo" /\ ~j.debug)}

ParInit ==
    /\ job \in Jobs
    /\ procs = [p \in 0..(job.size - 1) |-> ProcInit]
    /\ new_groups = IF job.root = "sub"
                    THEN << [k \in 1..job.size |-> k - 1] >>
                    ELSE << >>
    /\ BootIdle

\* dist.new_group keeps the job's groups in call order: the first process to
\* enter the k-th call fixes the ranks the group is being built for.
Registered(st) ==
    IF st.pc = "new_group" /\ st.ngroups > Len(new_groups)
    THEN Append(new_groups, st.waiting)
    ELSE new_groups

\* Process p calls setup_parallel_gangs(root_gang, tp_size=job.tp_size) and
\* runs it to its first collective call, its return or its exception.
setup_parallel_gangs(p) ==
    /\ procs[p].pc = "start"
    /\ LET st == IF tp_size_check(RootGang(p).size, job.tp_size) # "ok"
                 THEN Raise(procs[p], "ValueError")
                 ELSE build_dp(p, procs[p])
       IN  /\ procs' = [procs EXCEPT ![p] = st]
           /\ new_groups' = Registered(st)
    /\ UNCHANGED <<job, bootVars>>

\* Every process of the job has entered its k-th dist.new_group call, and
\* with the ranks the group was registered with.
Rendezvous(p, k) ==
    /\ \A q \in Ranks : procs[q].ngroups >= k
    /\ procs[p].waiting = new_groups[k]

\* The handle dist.new_group returns to process p for group k.
GroupHandle(p, k) ==
    IF dist_get_rank(new_groups[k], p) = -1 THEN NON_GROUP_MEMBER ELSE k

\* dist.new_group returns to process p: _do_create_gang goes on (to the
\* debug group under NCCL, or to the new gang), create_gang returns and
\* setup_parallel_gangs runs to its next collective call or its return.
new_group_return(p) ==
    /\ procs[p].pc = "new_group"
    /\ Rendezvous(p, procs[p].ngroups)
    /\ LET st    == procs[p]
           k     == st.ngroups
           root  == RootGang(p)
           ranks == st.waiting
           gang(pg, debug_pg) ==
               ProcessGroupGang(st.next_oid, pg, ranks, p, root.device, debug_pg)
           out == IF st.new_pg # NoPG
                  THEN loop_step(p, st, gang(st.new_pg, GroupHandle(p, k)))
                  ELSE IF root.debug_pg = NoPG
                  THEN loop_step(p, st, gang(GroupHandle(p, k), NoPG))
                  ELSE IF job.backend = "gloo"
                  THEN loop_step(p, st, gang(GroupHandle(p, k), GroupHandle(p, k)))
                  ELSE new_group_enter([st EXCEPT !.new_pg = GroupHandle(p, k)], ranks)
       IN  /\ procs' = [procs EXCEPT ![p] = out]
           /\ new_groups' = Registered(out)
    /\ UNCHANGED <<job, bootVars>>

ParNext ==
    \E p \in Ranks :
        \/ setup_parallel_gangs(p)
        \/ new_group_return(p)

SpecPar == ParInit /\ [][ParNext]_vars

\* ------------------------------------------------ splitting: the claims

\* Every process has left setup_parallel_gangs.
AllReturned == \A p \in Ranks : procs[p].pc \in {"done", "error"}
AllDone == \A p \in Ranks : procs[p].pc = "done"

\* tp_size is a proper divisor of the size of a world root gang.
NonDegenerate ==
    /\ job.root = "world"
    /\ 1 < job.tp_size /\ job.tp_size < job.size
    /\ job.size % job.tp_size = 0

\* The ranks of the row and of the column of rank r in the row-major mesh
\* with tp_size columns.
RowOf(r) == {q \in Ranks : q \div job.tp_size = r \div job.tp_size}
ColumnOf(r) == {q \in Ranks : q % job.tp_size = r % job.tp_size}

\* A gang a process got from create_gang and is a member of.
IsMemberGang(g) == g.kind = "pg" /\ g.pg >= 1 /\ g.pg <= Len(new_groups)
Members(g) == {new_groups[g.pg][k] : k \in DOMAIN new_groups[g.pg]}

\* The groups of one kind the processes hold between them.
HeldGroups(kind) ==
    {Members(IF kind = "tp" THEN procs[p].tp ELSE procs[p].dp) : p \in Ranks}

IsPartition(groups) ==
    \A r \in Ranks : Cardinality({g \in groups : r \in g}) = 1

\* C1: with a world root gang and 1 < tp_size < N dividing N, a process that
\* has returned holds as "tp" the group of its mesh row and as "dp" the group
\* of its mesh column, is a member of both, and once all have returned the
\* groups of each kind are the rows (the columns) and partition the N ranks.
C1_MeshGroups ==
    NonDegenerate =>
        /\ \A p \in Ranks : procs[p].pc = "done" =>
              /\ IsMemberGang(procs[p].tp) /\ IsMemberGang(procs[p].dp)
              /\ Members(procs[p].tp) = RowOf(p)
              /\ Members(procs[p].dp) = ColumnOf(p)
              /\ procs[p].tp.size = job.tp_size
              /\ procs[p].dp.size = job.size \div job.tp_size
              /\ new_groups[procs[p].tp.pg][procs[p].tp.rank + 1] = p
              /\ new_groups[procs[p].dp.pg][procs[p].dp.rank + 1] = p
        /\ AllDone =>
              /\ HeldGroups("tp") = {RowOf(r) : r \in Ranks}
              /\ HeldGroups("dp") = {ColumnOf(r) : r \in Ranks}
              /\ IsPartition(HeldGroups("tp")) /\ IsPartition(HeldGroups("dp"))
              /\ (job.size = 8 /\ job.tp_size = 2) =>
                    /\ HeldGroups("tp") = {{0, 1}, {2, 3}, {4, 5}, {6, 7}}
                    /\ HeldGroups("dp") = {{0, 2, 4, 6}, {1, 3, 5, 7}}

\* C1 witness: the 8 processes of the tp_size = 2 example have all returned.
C1_Witness ==
    NonDegenerate /\ job.size = 8 /\ job.tp_size = 2 /\ AllDone

\* The create_gang calls of the non-degenerate case: one per mesh column,
\* then one per mesh row.
ExpectedCalls ==
    LET tp == job.tp_size
        dp == job.size \div job.tp_size
    IN  [c \in 1..(tp + dp) |->
            IF c <= tp THEN [i \in 1..dp |-> (i - 1) * tp + (c - 1)]
            ELSE [j \in 1..tp |-> (c - tp - 1) * tp + (j - 1)]]

IsPrefix(s, t) == Len(s) <= Len(t) /\ \A k \in 1..Len(s) : s[k] = t[k]

\* C2: in the non-degenerate case every process issues the same create_gang
\* calls in the same order (the columns, then the rows), all of them by the
\* time it returns, no process fails, and unless all have returned some
\* process can take a step (no rendezvous is left unmatched).
C2_UniformCalls ==
    NonDegenerate =>
        /\ \A p \in Ranks :
              /\ IsPrefix(procs[p].calls, ExpectedCalls)
              /\ procs[p].pc = "done" => procs[p].calls = ExpectedCalls
              /\ procs[p].pc # "error"
        /\ AllDone \/ ENABLED ParNext

\* C2 witness: all processes returned after the tp_size + dp_size calls.
C2_Witness ==
    /\ NonDegenerate /\ AllDone /\ job.size = 6 /\ job.tp_size = 3
    /\ \A p \in Ranks : Len(procs[p].calls) = 5

\* tp_size is rejected by the specification of setup_parallel_gangs.
InvalidTpSize ==
    job.tp_size <= 0 \/ job.size % job.tp_size # 0

\* C4: with tp_size <= 0 or not dividing the root size every process fails
\* with ValueError, having issued no create_gang call and entered no
\* collective, so no process ever waits in a rendezvous.
C4_InvalidTpSize ==
    InvalidTpSize =>
        /\ \A p \in Ranks :
              /\ procs[p].pc \in {"start", "error"}
              /\ procs[p].pc = "error" => procs[p].exc = "ValueError"
              /\ procs[p].calls = << >>
              /\ procs[p].ngroups = 0
        /\ Len(new_groups) = (IF job.root = "sub" THEN 1 ELSE 0)

\* C4 witness: root size 8, tp_size 3, every process has failed.
C4_Witness ==
    /\ job.size = 8 /\ job.tp_size = 3
    /\ \A p \in Ranks : procs[p].pc = "error" /\ procs[p].exc = "ValueError"

\* C5 as stated: for every root size, 1 included, tp_size = root.size gives
\* the root gang object itself as "tp" and a gang of size 1 as "dp".
C5_Original ==
    \A p \in Ranks :
        (job.tp_size = job.size /\ procs[p].pc = "done") =>
            /\ procs[p].tp = RootGang(p)
            /\ procs[p].dp.size = 1

\* C5 amended: for every root of size >= 2, tp_size = root.size gives the
\* root gang object itself as "tp" and a gang of size 1 as "dp"; for a root
\* of size 1 "tp" is a new FakeGang (size 1, the root's device), not the
\* root object, and "dp" has size 1.
C5_Amended ==
    \A p \in Ranks :
        (job.tp_size = job.size /\ procs[p].pc = "done") =>
            /\ procs[p].dp.size = 1
            /\ job.size >= 2 => procs[p].tp = RootGang(p)
            /\ job.size = 1 =>
                  /\ procs[p].tp.kind = "fake" /\ procs[p].tp.size = 1
                  /\ procs[p].tp.device = RootGang(p).device
                  /\ procs[p].tp.oid # RootGang(p).oid

\* C5 witness: a root of size 1 was split with tp_size = 1, and one of
\* size 8 with tp_size = 8.
C5_Witness ==
    /\ job.tp_size = job.size /\ job.size \in {1, 8} /\ AllDone

\* C6: tp_size = 1 gives as "tp" a FakeGang of size 1 on the root's device
\* and as "dp" a gang as large as the root.
C6_TpSizeOne ==
    \A p \in Ranks :
        (job.tp_size = 1 /\ procs[p].pc = "done") =>
            /\ procs[p].tp.kind = "fake"
            /\ procs[p].tp.size = 1 /\ procs[p].tp.rank = 0
            /\ procs[p].tp.device = RootGang(p).device
            /\ procs[p].dp.size = RootGang(p).size

\* C6 witness: a root of size 8 was split with tp_size = 1.
C6_Witness ==
    job.tp_size = 1 /\ job.size = 8 /\ AllDone

\* tp_size is 1 or the size of the root gang.
Degenerate == job.tp_size = 1 \/ job.tp_size = job.size

\* C22: with tp_size = 1 or tp_size = root.size no process issues a
\* create_gang call or enters dist.new_group, no group is made, and a
\* process that has entered setup_parallel_gangs has returned from it,
\* whatever its peers have done.
C22_DegenerateNoSubGang ==
    Degenerate =>
        /\ \A p \in Ranks :
              /\ procs[p].calls = << >>
              /\ procs[p].ngroups = 0
              /\ procs[p].pc \in {"start", "done"}
        /\ Len(new_groups) = (IF job.root = "sub" THEN 1 ELSE 0)

\* C22 witness: of four processes splitting with tp_size = 4 one has
\* returned while the others have not entered yet; and with tp_size = 1.
C22_Witness ==
    /\ job.size = 4 /\ job.tp_size \in {1, 4} /\ job.root = "world"
    /\ procs[0].pc = "done"
    /\ \A p \in Ranks \ {0} : procs[p].pc = "start"

\* The root ranks of the processes in gang g of process p: a FakeGang is the
\* process on its own, any other gang the ranks of its process group.
C23_MemberSet(p, g) ==
    IF g.kind = "fake" THEN {p}
    ELSE {GroupRanks(g.pg)[k] : k \in DOMAIN GroupRanks(g.pg)}

\* C23: the gangs returned to a process have sizes tp.size = tp_size and
\* dp.size = N / tp_size, so dp.size * tp.size = N; the tensor parallel gang
\* is the row and the data parallel gang the column of the process in the
\* row-major mesh, and the two meet in the process's own root rank alone.
C23_SizesAndMesh ==
    \A p \in Ranks :
        procs[p].pc = "done" =>
            /\ procs[p].tp.size = job.tp_size
            /\ procs[p].dp.size = job.size \div job.tp_size
            /\ procs[p].dp.size * procs[p].tp.size = job.size
            /\ C23_MemberSet(p, procs[p].tp) = RowOf(p)
            /\ C23_MemberSet(p, procs[p].dp) = ColumnOf(p)
            /\ C23_MemberSet(p, procs[p].dp) \cap C23_MemberSet(p, procs[p].tp) = {p}

\* C23 witness: the six processes of a world root have all returned from a
\* split with tp_size = 3; process 4 is in row 1, column 1.
C23_Witness ==
    /\ job.size = 6 /\ job.tp_size = 3 /\ job.root = "world" /\ AllDone
    /\ C23_MemberSet(4, procs[4].tp) = {3, 4, 5}
    /\ C23_MemberSet(4, procs[4].dp) = {1, 4}

\* The root gang is a gang derived by create_gang and tp_size is a proper
\* divisor of its size.
C25_DerivedRoot ==
    /\ job.root = "sub"
    /\ 1 < job.tp_size /\ job.tp_size < job.size
    /\ job.size % job.tp_size = 0

\* C25: create_gang on a gang that is not the gang of the default group
\* fails with RuntimeError and makes no group, so setup_parallel_gangs with
\* 1 < tp_size < root.size on a derived root fails on every process at its
\* first create_gang call (the first mesh column), with no gang built and
\* no group made or asked for.
C25_WorldOnly ==
    C25_DerivedRoot =>
        /\ \A p \in Ranks :
              /\ procs[p].pc \in {"start", "error"}
              /\ procs[p].pc = "error" =>
                    /\ procs[p].exc = "RuntimeError"
                    /\ procs[p].calls = << ExpectedCalls[1] >>
                    /\ procs[p].dp = NoGang /\ procs[p].tp = NoGang
              /\ procs[p].ngroups = 0
        /\ new_groups = << [k \in 1..job.size |-> k - 1] >>

\* C25 witness: the six processes of a derived root have all failed at the
\* first create_gang call of a split with tp_size = 2.
C25_Witness ==
    /\ C25_DerivedRoot /\ job.size = 6 /\ job.tp_size = 2
    /\ \A p \in Ranks : procs[p].pc = "error" /\ procs[p].exc = "RuntimeError"
    /\ procs[5].calls = << << 0, 2, 4 >> >>

\* The process groups g.close() destroys: FakeGang.close does nothing,
\* ProcessGroupGang.close calls dist.destroy_process_group(self._pg).
close_destroys(g) == IF g.kind = "pg" THEN {g.pg} ELSE {}

\* C15: the gangs setup_parallel_gangs returns have lifetimes of their own:
\* closing the "dp" or the "tp" gang destroys no group of the root gang, and
\* closing the root gang destroys no group of the "dp" or the "tp" gang.
C15_IndependentLifetimes ==
    \A p \in Ranks :
        (procs[p].pc = "done" /\ RootGang(p).kind = "pg") =>
            /\ RootGang(p).pg \notin close_destroys(procs[p].dp)
            /\ RootGang(p).pg \notin close_destroys(procs[p].tp)
            /\ close_destroys(RootGang(p)) \cap
                  (close_destroys(procs[p].dp) \cup close_destroys(procs[p].tp)) = {}

\* --------------------------------------- collectives among the processes

\* Most processes in a job whose collectives are looked at.
MaxProcs == 3

\* The operations of a gang that issue collectives.
CollOps ==
    {"barrier", "all_reduce", "all_gather", "all_gather_to_list",
     "broadcast_objects", "create_gang"}

\* ReduceOperation, and the ReduceOp _get_reduce_op maps each member to.
ReduceOperation == {"SUM", "MEAN", "PRODUCT", "MIN", "MAX"}
_get_reduce_op(op) == IF op = "MEAN" THEN "AVG" ELSE op

\* The ranks of a set in ascending order, as dist.new_group keeps them.
SortedSeq(S) ==
    CHOOSE s \in [1..Cardinality(S) -> S] :
        \A i, j \in 1..Cardinality(S) : i < j => s[i] < s[j]

\* The members of the gang the operation is called on, as its rank list.
GangRanks == SortedSeq(job.members)

\* A job of job.size processes with a default group.  The members of a gang
\* (the world gang, or one made from it by create_gang) all call the same
\* operation on it, with the same arguments; no other process calls it.
CollJobs ==
    {j \in [size : 1..MaxProcs, backend : {"gloo", "nccl"}, debug : BOOLEAN,
            sub : BOOLEAN, members : SUBSET (0..(MaxProcs - 1)), op : CollOps,
            reduce_op : ReduceOperation, source_rank : (-1)..MaxProcs,
            ranks : {<< 0 >>, << 0, 0 >>}] :
        /\ j.members # {} /\ j.members \subseteq 0..(j.size - 1)
        /\ ~j.sub => j.members = 0..(j.size - 1)
        /\ j.op # "all_reduce" => j.reduce_op = "SUM"
        /\ j.op # "broadcast_objects" => j.source_rank = 0
        /\ j.op # "create_gang" => j.ranks = << 0 >>}

\* The groups dist.new_group made before the operation is called: those of
\* the sub-gang (its own, and its Gloo debug group under NCCL), or the Gloo
\* debug group init_default_process_group made beside an NCCL world group.
CollGroups ==
    IF job.sub
    THEN IF job.debug /\ job.backend = "nccl" THEN << GangRanks, GangRanks >>
         ELSE << GangRanks >>
    ELSE IF job.debug /\ job.backend = "nccl" THEN << GangRanks >>
    ELSE << >>

\* The gang object process p calls the operation on.
CollGang(p) ==
    LET pg == IF job.sub THEN 1 ELSE WORLD
        debug_pg == IF ~job.debug THEN NoPG
                    ELSE IF job.backend = "gloo" THEN pg
                    ELSE IF job.sub THEN 2 ELSE 1
    IN  ProcessGroupGang(0, pg, GangRanks, p, JobDevice, debug_pg)

\* What process p passes: a list of objects and a tensor of its own.
CollObjects(p) == << "obj", p >>
CollTensor(p) == p + 1

\* A collective call into torch.distributed: the function, the group it is
\* issued on, the source rank or reduce operation, and what is passed in.
LibCall(call, group, arg, input) ==
    [call |-> call, group |-> group, arg |-> arg, input |-> input]

\* ProcessGroupGang._maybe_monitored_barrier of gang g.
_maybe_monitored_barrier(g) ==
    IF g.debug_pg = NoPG THEN << >>
    ELSE << LibCall("dist.monitored_barrier", g.debug_pg, 0, 0) >>

\* The collective calls the operation makes on gang g of process p, in
\* order, if none of them raises.  broadcast_objects passes no group to
\* dist.broadcast_object_list, which then uses the default group.
gang_collectives(p, g) ==
    CASE job.op = "barrier" ->
            IF g.debug_pg = NoPG THEN << LibCall("dist.barrier", g.pg, 0, 0) >>
            ELSE << LibCall("dist.monitored_barrier", g.debug_pg, 0, 0) >>
      [] job.op = "all_reduce" ->
            _maybe_monitored_barrier(g) \o
            << LibCall("dist.all_reduce", g.pg, _get_reduce_op(job.reduce_op),
                       CollTensor(p)) >>
      [] job.op = "all_gather" ->
            _maybe_monitored_barrier(g) \o
            << LibCall("dist.all_gather_into_tensor", g.pg, 0, CollTensor(p)) >>
      [] job.op = "all_gather_to_list" ->
            _maybe_monitored_barrier(g) \o
            << LibCall("dist.all_gather", g.pg, 0, CollTensor(p)) >>
      [] job.op = "broadcast_objects" ->
            _maybe_monitored_barrier(g) \o
            << LibCall("dist.broadcast_object_list", WORLD, job.source_rank,
                       CollObjects(p)) >>
      [] job.op = "create_gang" ->
            IF g.debug_pg # NoPG /\ job.backend # "gloo"
            THEN << LibCall("dist.new_group", WORLD, 0, job.ranks),
                    LibCall("dist.new_group", WORLD, 0, job.ranks) >>
            ELSE << LibCall("dist.new_group", WORLD, 0, job.ranks) >>

\* The exception the operation raises before its first collective call:
\* create_gang validates the ranks and refuses a gang that is not the world
\* gang; no other operation checks anything.
gang_precheck(g) ==
    IF job.op # "create_gang" THEN "none"
    ELSE IF create_gang_check(g.size, job.ranks) # "ok" THEN "ValueError"
    ELSE IF g.pg # WORLD THEN "RuntimeError"
    ELSE "none"

\* torch.distributed refuses a call: a source rank that is no rank of the
\* group the call is issued on.
lib_rejects(c) ==
    /\ c.call = "dist.broadcast_object_list"
    /\ ~(c.arg >= 0 /\ c.arg < Len(GroupRanks(c.group)))

\* The exception types torch.distributed raises for an argument it refuses,
\* by backend and version.
LibErrors == {"ValueError", "RuntimeError"}

\* A process that has not called the operation yet: pc, the exception that
\* left the operation, the collective calls it has made, what its list,
\* its tensor and its gather output hold, and the gang create_gang returned.
CollProcInit(p) ==
    [pc |-> "start", exc |-> "none", issued |-> << >>, objects |-> CollObjects(p),
     tensor |-> CollTensor(p), output |-> << >>, gang |-> NoGang]

\* The calls of a sequence that were issued on one group, in order.
OnGroup(issued, group) == SelectSeq(issued, LAMBDA c : c.group = group)

\* The call of process q that meets the latest call of process p (c, the
\* n-th p issued on its group): the n-th q issued on that group.
PeerCall(q, c, n) == OnGroup(procs[q].issued, c.group)[n]

\* A collective returns once every rank of its group has entered it.
CollRendezvous(p) ==
    LET c == procs[p].issued[Len(procs[p].issued)]
        n == Len(OnGroup(procs[p].issued, c.group))
        H == GroupRanks(c.group)
    IN  \A k \in DOMAIN H :
            /\ Len(OnGroup(procs[H[k]].issued, c.group)) >= n
            /\ PeerCall(H[k], c, n).call = c.call
            /\ PeerCall(H[k], c, n).arg = c.arg

RECURSIVE Fold(_, _, _, _)
Fold(op(_, _), vals, k, acc) ==
    IF k > Len(vals) THEN acc ELSE Fold(op, vals, k + 1, op(acc, vals[k]))

\* dist.all_reduce: the ReduceOp over the tensors of the group.
Reduce(reduce_op, vals) ==
    CASE reduce_op = "SUM" -> Fold(LAMBDA a, b : a + b, vals, 2, vals[1])
      [] reduce_op = "AVG" -> Fold(LAMBDA a, b : a + b, vals, 2, vals[1]) \div Len(vals)
      [] reduce_op = "PRODUCT" -> Fold(LAMBDA a, b : a * b, vals, 2, vals[1])
      [] reduce_op = "MIN" -> Fold(LAMBDA a, b : IF a < b THEN a ELSE b, vals, 2, vals[1])
      [] reduce_op = "MAX" -> Fold(LAMBDA a, b : IF a > b THEN a ELSE b, vals, 2, vals[1])

\* What the latest collective of process p leaves in its objects: the list
\* of the source rank, the reduced tensor, the gathered tensors.
CollReturned(p) ==
    LET st == procs[p]
        c == st.issued[Len(st.issued)]
        n == Len(OnGroup(st.issued, c.group))
        H == GroupRanks(c.group)
        inputs == [k \in DOMAIN H |-> PeerCall(H[k], c, n).input]
    IN  CASE c.call = "dist.broadcast_object_list" ->
                [st EXCEPT !.objects = inputs[c.arg + 1]]
          [] c.call = "dist.all_reduce" ->
                [st EXCEPT !.tensor = Reduce(c.arg, inputs)]
          [] c.call \in {"dist.all_gather_into_tensor", "dist.all_gather"} ->
                [st EXCEPT !.output = inputs]
          [] OTHER -> st

\* The handle of the k-th group create_gang asks dist.new_group for.
NewGroupHandle(p, k) ==
    IF \E i \in DOMAIN job.ranks : job.ranks[i] = p THEN Len(CollGroups) + k
    ELSE NON_GROUP_MEMBER

\* The operation returns: create_gang with the new gang.
CollDone(p, st) ==
    LET g == CollGang(p)
        debug_pg == IF g.debug_pg = NoPG THEN NoPG
                    ELSE IF job.backend = "gloo" THEN NewGroupHandle(p, 1)
                    ELSE NewGroupHandle(p, 2)
    IN  IF job.op = "create_gang"
        THEN [st EXCEPT !.pc = "done",
                        !.gang = ProcessGroupGang(1, NewGroupHandle(p, 1),
                                                  SortedSeq({job.ranks[i] : i \in DOMAIN job.ranks}),
                                                  p, g.device, debug_pg)]
        ELSE [st EXCEPT !.pc = "done"]

\* The operation runs on from state st to its next collective call, which
\* torch.distributed refuses with exception exc or lets the process enter,
\* or to its return.
CollAdvance(p, st, exc) ==
    LET plan == gang_collectives(p, CollGang(p))
        k == Len(st.issued) + 1
    IN  IF k > Len(plan) THEN CollDone(p, st)
        ELSE IF lib_rejects(plan[k]) THEN [st EXCEPT !.pc = "error", !.exc = exc]
        ELSE [st EXCEPT !.pc = "wait", !.issued = Append(@, plan[k])]

\* dist.new_group keeps the groups in call order: the first process to enter
\* a call of create_gang's registers the group.
CollRegistered(st) ==
    LET n == Len(SelectSeq(st.issued, LAMBDA c : c.call = "dist.new_group"))
    IN  IF Len(new_groups) < Len(CollGroups) + n
        THEN Append(new_groups, SortedSeq({job.ranks[i] : i \in DOMAIN job.ranks}))
        ELSE new_groups

\* A member of the gang calls the operation, which runs to its exception or
\* its first collective call.
coll_call(p) ==
    /\ p \in job.members
    /\ procs[p].pc = "start"
    /\ \E exc \in LibErrors :
          LET st == IF gang_precheck(CollGang(p)) # "none"
                    THEN [procs[p] EXCEPT !.pc = "error",
                                          !.exc = gang_precheck(CollGang(p))]
                    ELSE CollAdvance(p, procs[p], exc)
          IN  /\ procs' = [procs EXCEPT ![p] = st]
              /\ new_groups' = CollRegistered(st)
    /\ UNCHANGED <<job, bootVars>>

\* The collective process p waits in returns; the operation runs on to its
\* next collective call or its return.
coll_return(p) ==
    /\ procs[p].pc = "wait"
    /\ CollRendezvous(p)
    /\ \E exc \in LibErrors :
          LET st == CollAdvance(p, CollReturned(p), exc)
          IN  /\ procs' = [procs EXCEPT ![p] = st]
              /\ new_groups' = CollRegistered(st)
    /\ UNCHANGED <<job, bootVars>>

CollInit ==
    /\ job \in CollJobs
    /\ procs = [p \in 0..(job.size - 1) |-> CollProcInit(p)]
    /\ new_groups = CollGroups
    /\ BootIdle

CollNext ==
    \/ \E p \in Ranks : coll_call(p)
    \/ \E p \in Ranks : coll_return(p)

SpecColl == CollInit /\ [][CollNext]_vars

\* Every member of the gang has called the operation / has left it.
CollAllCalled == \A p \in job.members : procs[p].pc # "start"
CollAllLeft == \A p \in job.members : procs[p].pc \in {"done", "error"}

\* The source rank names a rank of the gang.
CollValidSource == job.source_rank >= 0 /\ job.source_rank < Cardinality(job.members)

\* C12: broadcast_objects with a source rank outside [0, size) of the gang
\* fails (the claim says with ValueError; any exception is let pass here)
\* before the process has issued any collective call, the monitored barrier
\* included.
C12_BadSourceRank ==
    (job.op = "broadcast_objects" /\ ~CollValidSource) =>
        \A p \in job.members :
            procs[p].pc # "start" =>
                (procs[p].pc = "error" /\ procs[p].issued = << >>)

\* C13: when every member of a gang calls broadcast_objects with the same
\* valid source rank s, and no other process does, no call fails, the calls
\* complete, and a member that has returned holds the list of the member
\* whose rank in the gang is s.
C13_BroadcastInGang ==
    (job.op = "broadcast_objects" /\ CollValidSource) =>
        /\ \A p \in job.members : procs[p].pc # "error"
        /\ CollAllCalled => (CollAllLeft \/ ENABLED CollNext)
        /\ \A p \in job.members :
              procs[p].pc = "done" =>
                  procs[p].objects = CollObjects(GangRanks[job.source_rank + 1])

\* C16: a gang with a debug group issues a monitored barrier on that group
\* right before every other collective call it makes (in all_reduce,
\* all_gather, all_gather_to_list, broadcast_objects and create_gang); a
\* gang without one never issues a monitored barrier.
C16_MonitoredBarrierFirst ==
    \A p \in job.members :
        LET g == CollGang(p)
            issued == procs[p].issued
        IN  \A k \in DOMAIN issued :
                IF g.debug_pg = NoPG
                THEN issued[k].call # "dist.monitored_barrier"
                ELSE issued[k].call # "dist.monitored_barrier" =>
                        /\ k > 1
                        /\ issued[k - 1].call = "dist.monitored_barrier"
                        /\ issued[k - 1].group = g.debug_pg

\* ------------------------------------------- one process: the environment

\* Strings the launcher may put in an integer-valued variable.
IntStrings ==
    {<< "0" >>, << "1" >>, << "2" >>, << "1", "0" >>, << "-", "1" >>,
     << "+", "2" >>, << "0", "0" >>, << "x" >>, << "1", "x" >>, << >>}

\* os.environ[name] = value, or del os.environ[name] (value = Unset), by
\* the launcher or the program between two calls into the module.
setenv(name, value) ==
    /\ env[name] # value
    /\ env' = [env EXCEPT ![name] = value]
    /\ ret' = [RetIdle EXCEPT !.op = "setenv"]
    /\ UNCHANGED <<host, default_device, dist, num_threads, gangs, mem, parVars>>

\* The outcome of a reader of the environment, as the last call.
ReaderRet(op, r) == [RetIdle EXCEPT !.op = op, !.exc = r.exc, !.value = r.value]

\* A call of one of the four public readers.
call_get_world_size ==
    /\ ret' = ReaderRet("get_world_size", get_world_size(env))
    /\ UNCHANGED <<env, host, default_device, dist, num_threads, gangs, mem, parVars>>

call_get_rank ==
    /\ ret' = ReaderRet("get_rank", get_rank(env))
    /\ UNCHANGED <<env, host, default_device, dist, num_threads, gangs, mem, parVars>>

call_get_local_world_size ==
    /\ ret' = ReaderRet("get_local_world_size", get_local_world_size(env))
    /\ UNCHANGED <<env, host, default_device, dist, num_threads, gangs, mem, parVars>>

call_get_local_rank ==
    /\ ret' = ReaderRet("get_local_rank", get_local_rank(env))
    /\ UNCHANGED <<env, host, default_device, dist, num_threads, gangs, mem, parVars>>

\* The variables the four readers read.
IntEnvNames == {"WORLD_SIZE", "RANK", "LOCAL_WORLD_SIZE", "LOCAL_RANK"}

EnvInit == ParIdle /\ BootIdle

EnvNext ==
    \/ \E name \in IntEnvNames, value \in IntStrings \cup {Unset} : setenv(name, value)
    \/ call_get_world_size
    \/ call_get_rank
    \/ call_get_local_world_size
    \/ call_get_local_rank

SpecEnv == EnvInit /\ [][EnvNext]_vars

\* The variable each reader reads.
ReaderVar(op) ==
    CASE op = "get_world_size" -> "WORLD_SIZE"
      [] op = "get_rank" -> "RANK"
      [] op = "get_local_world_size" -> "LOCAL_WORLD_SIZE"
      [] op = "get_local_rank" -> "LOCAL_RANK"

Readers == {"get_world_size", "get_rank", "get_local_world_size", "get_local_rank"}

\* C10: a reader whose variable is set to a string that is no integer fails
\* with a RuntimeError whose message names the variable and the bad value.
C10_MalformedInteger ==
    \A op \in Readers :
        (/\ ret.op = op
         /\ env[ReaderVar(op)] # Unset
         /\ ~IsIntLiteral(env[ReaderVar(op)])) =>
            ret.exc = EnvExc("RuntimeError", ReaderVar(op), env[ReaderVar(op)])

\* The least value each reader accepts and the value it returns when its
\* variable is unset.
C11_LeastValue(op) == IF op \in {"get_rank", "get_local_rank"} THEN 0 ELSE 1
C11_Default(op) == IF op \in {"get_rank", "get_local_rank"} THEN 0 ELSE 1

\* C11: a reader whose variable is unset returns the default (0 for the rank
\* variables, 1 for the size variables); one whose variable holds an integer
\* returns that integer if it is >= 0 (rank variables) or >= 1 (size
\* variables), and otherwise fails with a RuntimeError that names the
\* variable and the integer.
C11_RangeValidation ==
    \A op \in Readers :
        ret.op = op =>
            LET s == env[ReaderVar(op)]
            IN  /\ s = Unset => (ret.exc = NoExc /\ ret.value = C11_Default(op))
                /\ (s # Unset /\ IsIntLiteral(s) /\ IntOf(s) >= C11_LeastValue(op)) =>
                       (ret.exc = NoExc /\ ret.value = IntOf(s))
                /\ (s # Unset /\ IsIntLiteral(s) /\ IntOf(s) < C11_LeastValue(op)) =>
                       ret.exc = EnvExc("RuntimeError", ReaderVar(op), IntToStr(IntOf(s)))

\* get_world_size() was called with WORLD_SIZE=00 and failed, the message
\* naming WORLD_SIZE and 0.
C11_Witness ==
    /\ ret.op = "get_world_size" /\ env["WORLD_SIZE"] = << "0", "0" >>
    /\ ret.exc = EnvExc("RuntimeError", "WORLD_SIZE", << "0" >>)

\* ------------------------------------------ one process: the default device

\* Largest number of CUDA devices a host shows.
MaxDevices == 2

\* Strings the launcher may put in FAIRSEQ2_DEVICE, as tokens.
DeviceStrings ==
    {<< "cpu" >>, << "cuda" >>, << "cuda", ":", "0" >>, << "cuda", ":", "1" >>,
     << "tpu" >>, << >>}

\* Strings the launcher may put in CUDA_VISIBLE_DEVICES.
VisibleStrings == {<< "1" >>, << "0", ",", "1" >>}

\* The devices a caller may pass explicitly (NoDevice: device=None).
DeviceArgs == {NoDevice, CPU, CudaDevice(0)}

\* Largest default group (WORLD_SIZE of the job the process joins).
MaxWorld == 2
\* Most gang objects the program holds on to.
MaxGangs == 2
\* Longest rank list passed to create_gang.
MaxRanks == 2

\* dist.is_initialized()
is_initialized == dist.backend # "none"

\* The program keeps a new gang object (it joins the objects held) or drops
\* it; a gang it holds already is not held twice.  The identity of a new
\* object is the next free one.
NewOid == Len(gangs) + 1
Kept(g, keep) == IF keep /\ g.oid = NewOid THEN Append(gangs, g) ELSE gangs

\* What a call that may build a gang does: the exception or the gang, and
\* the values it leaves in _default_device, the thread count and
\* torch.distributed, with the library calls and hooks it went through.
Outcome(exc, gang, cache, threads, d, called) ==
    [exc |-> exc, gang |-> gang, cache |-> cache, threads |-> threads,
     dist |-> d, called |-> called]

\* FakeGang(device): with device=None the default device is determined.
FakeGang_init(device) ==
    LET called == IF device = NoDevice THEN {"_determine_default_device"} ELSE {}
        init(d) ==
            IF d.exc # NoExc
            THEN Outcome(d.exc, NoGang, d.cache, num_threads, dist, called)
            ELSE Outcome(NoExc, FakeGang(NewOid, d.device), d.cache, num_threads, dist, called)
    IN  init(IF device = NoDevice
             THEN _determine_default_device(env, default_device, host.cuda_count)
             ELSE DevResult(NoExc, device, default_device))

\* The state after a call with outcome o; the program keeps the gang or not.
\* args are the arguments of the call that ret has no field for.
ApplyArgs(op, o, device, ok_initialized, keep, args) ==
    /\ default_device' = o.cache
    /\ num_threads' = o.threads
    /\ dist' = o.dist
    /\ gangs' = IF o.exc = NoExc THEN Kept(o.gang, keep) ELSE gangs
    /\ ret' = [RetIdle EXCEPT !.op = op, !.exc = o.exc, !.gang = o.gang,
                   !.called = o.called, !.device = device,
                   !.ok_initialized = ok_initialized,
                   !.was_initialized = is_initialized, !.args = args]
    /\ UNCHANGED <<env, host, mem, parVars>>

Apply(op, o, device, ok_initialized, keep) ==
    ApplyArgs(op, o, device, ok_initialized, keep, << >>)

\* FakeGang(device) as a call of the program.
new_FakeGang(device, keep) ==
    /\ keep => Len(gangs) < MaxGangs
    /\ Apply("FakeGang", FakeGang_init(device), device, FALSE, keep)

\* A host with some number of CUDA devices; nothing set, nothing cached.
DeviceInit ==
    /\ ParIdle
    /\ env = EnvEmpty
    /\ host \in [cuda_count : 0..MaxDevices, num_cpus : {1}, affinity : {1},
                 dist_available : {TRUE}, size : {1}, rank : {0}]
    /\ default_device = NoDevice
    /\ dist = DistNone
    /\ num_threads = 0
    /\ gangs = << >>
    /\ ret = RetIdle
    /\ mem = MemNone

DeviceNext ==
    \/ \E value \in DeviceStrings \cup {Unset} : setenv("FAIRSEQ2_DEVICE", value)
    \/ \E value \in VisibleStrings \cup {Unset} : setenv("CUDA_VISIBLE_DEVICES", value)
    \/ \E value \in {<< "0" >>, << "1" >>, << "2" >>, << "x" >>, Unset} :
          setenv("LOCAL_RANK", value)
    \/ \E value \in {<< "1" >>, << "2" >>, Unset} : setenv("LOCAL_WORLD_SIZE", value)
    \/ \E device \in DeviceArgs : new_FakeGang(device, FALSE)

SpecDevice == DeviceInit /\ [][DeviceNext]_vars

\* C9: a determination of the default device that returns caches what it
\* returns, a later one returns the cached device whatever the environment
\* says by then, and one that fails leaves the cache unset.
C9_WriteOnceDevice ==
    (ret.op = "FakeGang" /\ ret.device = NoDevice) =>
        /\ ret.exc = NoExc => (default_device # NoDevice /\ ret.gang.device = default_device)
        /\ ret.exc # NoExc => default_device = NoDevice

\* CUDA_VISIBLE_DEVICES names a single device: it reads as one integer.
C21_SingleVisible ==
    env["CUDA_VISIBLE_DEVICES"] # Unset /\ IsIntLiteral(env["CUDA_VISIBLE_DEVICES"])

\* The number of devices visible to the selection: those the host shows,
\* one at most when CUDA_VISIBLE_DEVICES names a single device.
C21_NumVisible ==
    IF C21_SingleVisible /\ host.cuda_count > 1 THEN 1 ELSE host.cuda_count

\* The failure of the selection for want of a rank to tell the devices apart.
C21_Ambiguous(exc) ==
    exc.type = "RuntimeError" /\ exc.var = "LOCAL_RANK" /\ exc.value = Unset

\* C21: with a CUDA device present, FAIRSEQ2_DEVICE unset and no default
\* device cached, the device selected is index 0 if CUDA_VISIBLE_DEVICES is
\* a single integer; else LOCAL_RANK if it is set, and a failure if that is
\* not below the number of devices; else index 0 unless several devices and
\* several local processes meet, which is the one case of the ambiguity
\* failure.  An index selected is in [0, number of devices).
C21_IndexSelection ==
    [][(/\ ret'.op = "FakeGang" /\ ret'.device = NoDevice
        /\ default_device = NoDevice /\ env["FAIRSEQ2_DEVICE"] = Unset
        /\ host.cuda_count > 0) =>
          LET local_rank == _get_int_from_env(env, "LOCAL_RANK", TRUE)
              num_procs == get_local_world_size(env)
              selected(idx) == ret'.exc = NoExc /\ ret'.gang.device = CudaDevice(idx)
          IN  /\ C21_SingleVisible => selected(0)
              /\ (~C21_SingleVisible /\ local_rank.exc = NoExc /\ ~local_rank.none) =>
                    /\ local_rank.value < host.cuda_count => selected(local_rank.value)
                    /\ local_rank.value >= host.cuda_count =>
                          (ret'.exc.type = "RuntimeError" /\ ret'.exc.var = "LOCAL_RANK")
              /\ (~C21_SingleVisible /\ env["LOCAL_RANK"] = Unset
                     /\ num_procs.exc = NoExc
                     /\ ~(num_procs.value > 1 /\ host.cuda_count > 1)) => selected(0)
              /\ C21_Ambiguous(ret'.exc) <=>
                    /\ env["LOCAL_RANK"] = Unset /\ C21_NumVisible > 1
                    /\ num_procs.exc = NoExc /\ num_procs.value > 1
              /\ ret'.exc = NoExc =>
                    /\ ret'.gang.device.type = "cuda"
                    /\ ret'.gang.device.index >= 0
                    /\ ret'.gang.device.index < host.cuda_count]_vars

\* C21 witness: with two devices and two local processes and nothing to tell
\* the rank, the selection failed as ambiguous and nothing was cached.
C21_Witness ==
    /\ ret.op = "FakeGang" /\ ret.device = NoDevice /\ C21_Ambiguous(ret.exc)
    /\ host.cuda_count = 2 /\ env["LOCAL_WORLD_SIZE"] = << "2" >>
    /\ env["LOCAL_RANK"] = Unset /\ env["FAIRSEQ2_DEVICE"] = Unset
    /\ default_device = NoDevice

\* --------------------------------------- one process: the default group

\* The handle of the default group made by the n-th dist.init_process_group:
\* a new object each time, dist.group.WORLD while it lives.
WorldHandle(n) == IF n = 1 THEN WORLD ELSE -(n + 1)

\* The rank list behind a handle of this process.
WorldRanks == [k \in 1..dist.size |-> k - 1]

\* ProcessGroupGang.from_default_process_group(): an exception, or the
\* device of a new gang around dist.group.WORLD.
from_default ==
    IF ~host.dist_available THEN DevResult(Exc("RuntimeError"), NoDevice, NoDevice)
    ELSE IF ~is_initialized THEN DevResult(Exc("RuntimeError"), NoDevice, NoDevice)
    ELSE IF dist.backend = "gloo" THEN DevResult(NoExc, CPU, NoDevice)
    ELSE _determine_default_cuda_device(env, host.cuda_count)

\* The gang from_default_process_group builds: no debug group.
from_default_gang(device) ==
    ProcessGroupGang(NewOid, dist.world, WorldRanks, dist.rank, device, NoPG)

\* What from_default_process_group does, given the device it found (d).
from_default_outcome(d, called) ==
    Outcome(d.exc, IF d.exc = NoExc THEN from_default_gang(d.device) ELSE NoGang,
            default_device, num_threads, dist, called)

\* ProcessGroupGang.from_default_process_group() as a call of the program.
from_default_process_group(keep) ==
    /\ keep => Len(gangs) < MaxGangs
    /\ Apply("from_default_process_group", from_default_outcome(from_default, {}),
             NoDevice, FALSE, keep)

\* Devices a caller of init_default_process_group may pass.
InitDeviceArgs == DeviceArgs \cup {[type |-> "meta", index |-> -1]}

\* num_threads arguments a caller may pass (0: None).
ThreadArgs == {0, 3}

\* dist.init_process_group(backend, ...) and, in debug mode under NCCL, the
\* Gloo group made beside the default group: the new torch.distributed.  The
\* job decides the size of the default group and this process's rank.
init_process_group(backend, debug, size, rank) ==
    LET ranks == [k \in 1..size |-> k - 1]
        extra == debug /\ backend # "gloo"
    IN  [dist EXCEPT !.backend = backend, !.size = size, !.rank = rank,
                     !.world = WorldHandle(dist.inits + 1),
                     !.inits = @ + 1,
                     !.groups = IF extra THEN Append(@, ranks) ELSE @,
                     !.live = IF extra THEN @ \cup {Len(dist.groups) + 1} ELSE @]

\* init_default_process_group once the default group is known not to exist.
\* (The variables it writes to os.environ, TORCH_DISTRIBUTED_DEBUG and the
\* NCCL error handling ones, are read by the library only and not kept.)
init_new_group(device, threads_arg, debug, size, rank) ==
    LET threads_of(num_procs) ==
            IF threads_arg # 0 THEN threads_arg
            ELSE IF num_procs.value > 1 /\ env["OMP_NUM_THREADS"] = Unset
            THEN _get_num_cpus(num_procs.value, host.num_cpus, host.affinity)
            ELSE 0
        debug_pg_of(backend, nd) ==
            IF ~debug THEN NoPG
            ELSE IF backend = "gloo" THEN nd.world
            ELSE Len(nd.groups)
        made(d, nt, called, backend, nd) ==
            Outcome(NoExc,
                    ProcessGroupGang(NewOid, nd.world, [k \in 1..size |-> k - 1], rank,
                                     d.device, debug_pg_of(backend, nd)),
                    d.cache, nt, nd, called \cup {"dist.init_process_group"})
        with_backend(d, nt, called, backend) ==
            made(d, nt, called, backend, init_process_group(backend, debug, size, rank))
        with_device(d, nt, called) ==
            IF d.exc # NoExc
            THEN Outcome(d.exc, NoGang, d.cache, nt, dist, called)
            ELSE IF device = NoDevice /\ d.device.type \notin {"cpu", "cuda"}
            THEN Outcome(Exc("AssertionError"), NoGang, d.cache, nt, dist, called)
            ELSE IF d.device.type \notin {"cpu", "cuda"}
            THEN Outcome(Exc("ValueError"), NoGang, d.cache, nt, dist, called)
            ELSE with_backend(d, nt, called, IF d.device.type = "cpu" THEN "gloo" ELSE "nccl")
        with_threads(threads) ==
            with_device(IF device = NoDevice
                        THEN _determine_default_device(env, default_device, host.cuda_count)
                        ELSE DevResult(NoExc, device, default_device),
                        IF threads # 0 THEN threads ELSE num_threads,
                        (IF threads # 0 THEN {"torch.set_num_threads"} ELSE {})
                           \cup (IF device = NoDevice THEN {"_determine_default_device"} ELSE {}))
        with_num_procs(num_procs) ==
            IF num_procs.exc # NoExc
            THEN Outcome(num_procs.exc, NoGang, default_device, num_threads, dist, {})
            ELSE with_threads(threads_of(num_procs))
    IN  with_num_procs(get_local_world_size(env))

\* Mutant of init_default: a caller that passes ok_initialized=True gets a
\* freshly initialised default group even if one exists.
init_default_reinit(device, threads_arg, debug, ok_initialized, size, rank) ==
    IF ~host.dist_available
    THEN Outcome(Exc("RuntimeError"), NoGang, default_device, num_threads, dist, {})
    ELSE IF is_initialized /\ ~ok_initialized
    THEN Outcome(Exc("RuntimeError"), NoGang, default_device, num_threads, dist, {})
    ELSE init_new_group(device, threads_arg, debug, size, rank)

\* ProcessGroupGang.init_default_process_group(device=..., num_threads=...,
\* debug=..., ok_initialized=...).
init_default(device, threads_arg, debug, ok_initialized, size, rank) ==
    IF ~host.dist_available
    THEN Outcome(Exc("RuntimeError"), NoGang, default_device, num_threads, dist, {})
    ELSE IF is_initialized
    THEN IF ~ok_initialized
         THEN Outcome(Exc("RuntimeError"), NoGang, default_device, num_threads, dist, {})
         ELSE from_default_outcome(from_default, {"from_default_process_group"})
    ELSE init_new_group(device, threads_arg, debug, size, rank)

\* init_default_process_group as a call of the program.
init_default_process_group(device, threads_arg, debug, ok_initialized, keep) ==
    /\ keep => Len(gangs) < MaxGangs
    /\ ApplyArgs("init_default_process_group",
                 init_default(device, threads_arg, debug, ok_initialized, host.size, host.rank),
                 device, ok_initialized, keep, << debug, threads_arg >>)

\* Mutant of setup_default: WORLD_SIZE is read but the default group is
\* initialised whatever it says.
setup_default_always_init(device, debug, size, rank) ==
    LET tag(o, path) == [o EXCEPT !.called = @ \cup {path}]
        setup(world_size) ==
            IF world_size.exc # NoExc
            THEN Outcome(world_size.exc, NoGang, default_device, num_threads, dist, {})
            ELSE tag(init_default(device, 0, debug, FALSE, size, rank),
                     "init_default_process_group")
    IN  setup(get_world_size(env))

\* setup_default_gang(device=..., debug=...).
setup_default(device, debug, size, rank) ==
    LET tag(o, path) == [o EXCEPT !.called = @ \cup {path}]
        setup(world_size) ==
            IF world_size.exc # NoExc
            THEN Outcome(world_size.exc, NoGang, default_device, num_threads, dist, {})
            ELSE IF world_size.value = 1
            THEN tag(FakeGang_init(device), "FakeGang")
            ELSE tag(init_default(device, 0, debug, FALSE, size, rank),
                     "init_default_process_group")
    IN  setup(get_world_size(env))

\* setup_default_gang as a call of the program.
setup_default_gang(device, debug, keep) ==
    /\ keep => Len(gangs) < MaxGangs
    /\ Apply("setup_default_gang", setup_default(device, debug, host.size, host.rank),
             device, FALSE, keep)

\* dist.new_group(ranks) keeps the ranks of a group in ascending order.
sorted_ranks(ranks) == SortSeq(ranks, LAMBDA a, b : a < b)

\* dist.new_group accepts the ranks: each is a rank of the default group.
new_group_ok(ranks) == \A k \in DOMAIN ranks : ranks[k] >= 0 /\ ranks[k] < dist.size

\* Mutant of pg_do_create_gang: the debug group of the new gang is its
\* process group whatever the backend.
pg_do_create_gang_reuse(g, ranks) ==
    LET k == Len(dist.groups) + 1
        member == \E i \in DOMAIN ranks : ranks[i] = dist.rank
        handle(h) == IF member THEN h ELSE NON_GROUP_MEMBER
        nd == [dist EXCEPT !.groups = Append(@, sorted_ranks(ranks)),
                           !.live = @ \cup {k}]
        called == {"_do_create_gang"}
    IN  IF g.pg # dist.world
        THEN Outcome(Exc("RuntimeError"), NoGang, default_device, num_threads, dist, called)
        ELSE IF ~new_group_ok(ranks)
        THEN Outcome(Exc("BackendError"), NoGang, default_device, num_threads, dist,
                     called \cup {"dist.new_group"})
        ELSE Outcome(NoExc,
                     ProcessGroupGang(NewOid, handle(k), sorted_ranks(ranks), dist.rank,
                                      g.device,
                                      IF g.debug_pg = NoPG THEN NoPG ELSE handle(k)),
                     default_device, num_threads, nd, called \cup {"dist.new_group"})

\* ProcessGroupGang._do_create_gang(ranks) on the gang g of this process.
pg_do_create_gang(g, ranks) ==
    LET backend == dist.backend
        k == Len(dist.groups) + 1
        extra == g.debug_pg # NoPG /\ backend # "gloo"
        member == \E i \in DOMAIN ranks : ranks[i] = dist.rank
        handle(h) == IF member THEN h ELSE NON_GROUP_MEMBER
        debug_pg == IF g.debug_pg = NoPG THEN NoPG
                    ELSE IF backend = "gloo" THEN handle(k)
                    ELSE handle(k + 1)
        made == IF extra THEN << sorted_ranks(ranks), sorted_ranks(ranks) >>
                ELSE << sorted_ranks(ranks) >>
        nd == [dist EXCEPT !.groups = @ \o made,
                           !.live = @ \cup (k..(k + Len(made) - 1))]
        called == {"_do_create_gang"}
    IN  IF g.pg # dist.world
        THEN Outcome(Exc("RuntimeError"), NoGang, default_device, num_threads, dist, called)
        ELSE IF ~new_group_ok(ranks)
        THEN Outcome(Exc("BackendError"), NoGang, default_device, num_threads, dist,
                     called \cup {"dist.new_group"})
        ELSE Outcome(NoExc,
                     ProcessGroupGang(NewOid, handle(k), sorted_ranks(ranks), dist.rank,
                                      g.device, debug_pg),
                     default_device, num_threads, nd, called \cup {"dist.new_group"})

\* Mutant of fake_do_create_gang: a gang as large as the rank list.
fake_do_create_gang_sized(g, ranks) ==
    Outcome(NoExc, [g EXCEPT !.size = Len(ranks)], default_device, num_threads, dist,
            {"_do_create_gang"})

\* FakeGang._do_create_gang(ranks): the gang itself.
fake_do_create_gang(g, ranks) ==
    Outcome(NoExc, g, default_device, num_threads, dist, {"_do_create_gang"})

\* AbstractGang.create_gang(ranks) on the gang g of this process.
gang_create_gang(g, ranks) ==
    IF create_gang_check(g.size, ranks) # "ok"
    THEN Outcome(Exc("ValueError"), NoGang, default_device, num_threads, dist, {})
    ELSE IF g.kind = "fake" THEN fake_do_create_gang(g, ranks)
    ELSE pg_do_create_gang(g, ranks)

\* Rank lists a caller may pass to create_gang on a gang of the given size.
RankLists(size) ==
    UNION {[1..n -> (-1)..(size + 1)] : n \in 0..MaxRanks}

\* gangs[oid].create_gang(ranks) as a call of the program.
create_gang_call(oid, ranks) ==
    /\ Len(gangs) < MaxGangs
    /\ \E o \in {gang_create_gang(gangs[oid], ranks)} :
          /\ ret' = [RetIdle EXCEPT !.op = "create_gang", !.exc = o.exc, !.gang = o.gang,
                         !.called = o.called, !.value = oid, !.ranks = ranks,
                         !.was_initialized = is_initialized]
          /\ dist' = o.dist
          /\ gangs' = IF o.exc = NoExc THEN Kept(o.gang, TRUE) ELSE gangs
    /\ UNCHANGED <<env, host, default_device, num_threads, mem, parVars>>

\* gangs[oid].close() as a call of the program: FakeGang.close does nothing,
\* ProcessGroupGang.close destroys the gang's group; destroying the default
\* group takes every other group with it.
close(oid) ==
    LET g == gangs[oid]
        nd == IF g.kind = "fake" \/ g.pg = NON_GROUP_MEMBER THEN dist
              ELSE IF is_initialized /\ g.pg = dist.world
              THEN [dist EXCEPT !.backend = "none", !.size = 0, !.rank = 0,
                                !.world = NoPG, !.live = {}, !.destroys = @ + 1]
              ELSE [dist EXCEPT !.live = @ \ {g.pg}]
        exc == IF g.kind = "fake" \/ g.pg = NON_GROUP_MEMBER THEN NoExc
               ELSE IF is_initialized /\ (g.pg = dist.world \/ g.pg \in dist.live) THEN NoExc
               ELSE Exc("BackendError")
    IN  /\ dist' = nd
        /\ ret' = [RetIdle EXCEPT !.op = "close", !.exc = exc, !.value = oid,
                       !.was_initialized = is_initialized]
        /\ UNCHANGED <<env, host, default_device, num_threads, gangs, mem, parVars>>

\* A process on some host, nothing set, no call made.
BootInit ==
    /\ ParIdle
    /\ env = EnvEmpty
    /\ host \in [cuda_count : 0..MaxDevices, num_cpus : {4}, affinity : {2},
                 dist_available : BOOLEAN, size : 1..MaxWorld, rank : 0..(MaxWorld - 1)]
    /\ host.rank < host.size
    /\ default_device = NoDevice
    /\ dist = DistNone
    /\ num_threads = 0
    /\ gangs = << >>
    /\ ret = RetIdle
    /\ mem = MemNone

\* The bootstrap calls under a changing environment; the gangs returned are
\* looked at in ret and not held on to.
BootNext ==
    \/ \E value \in {<< "1" >>, << "2" >>, Unset} : setenv("WORLD_SIZE", value)
    \/ \E value \in {<< "2" >>, Unset} : setenv("LOCAL_WORLD_SIZE", value)
    \/ \E value \in {<< "tpu" >>, Unset} : setenv("FAIRSEQ2_DEVICE", value)
    \/ \E device \in DeviceArgs, debug \in BOOLEAN : setup_default_gang(device, debug, FALSE)
    \/ \E device \in InitDeviceArgs, threads_arg \in ThreadArgs, debug \in BOOLEAN,
          ok_initialized \in BOOLEAN :
          init_default_process_group(device, threads_arg, debug, ok_initialized, FALSE)
    \/ from_default_process_group(FALSE)

SpecBoot == BootInit /\ [][BootNext]_vars

\* The last call went through init_default_process_group (directly, or from
\* setup_default_gang) while the default group was initialised.
C7_CalledInitialized ==
    /\ ret.was_initialized
    /\ \/ ret.op = "init_default_process_group"
       \/ ret.op = "setup_default_gang" /\ "init_default_process_group" \in ret.called

\* The gang returned by the last call wraps the default group that exists.
C7_WrapsWorld ==
    /\ ret.exc = NoExc
    /\ ret.gang.kind = "pg" /\ ret.gang.pg = dist.world
    /\ ret.gang.size = dist.size /\ ret.gang.rank = dist.rank

C8_WorldSizeOne ==
    get_world_size(env).exc = NoExc /\ get_world_size(env).value = 1

\* The gang returned by the last call is a FakeGang of rank 0 and size 1.
C8_ReturnedFake ==
    /\ ret.exc = NoExc
    /\ ret.gang.kind = "fake" /\ ret.gang.rank = 0 /\ ret.gang.size = 1

\* The last call made no call to dist.init_process_group or
\* torch.set_num_threads.
C8_BackendUntouched ==
    /\ "dist.init_process_group" \notin ret.called
    /\ "torch.set_num_threads" \notin ret.called

\* C8 as stated: with WORLD_SIZE unset or 1, setup_default_gang returns a
\* FakeGang (rank 0, size 1) and touches neither the backend nor the thread
\* count; with WORLD_SIZE > 1 it goes through init_default_process_group.
C8_FakeWhenAlone ==
    ret.op = "setup_default_gang" =>
        /\ C8_WorldSizeOne => (C8_ReturnedFake /\ C8_BackendUntouched)
        /\ (get_world_size(env).exc = NoExc /\ get_world_size(env).value > 1) =>
               "init_default_process_group" \in ret.called

\* C8 amended: with WORLD_SIZE unset or 1, setup_default_gang constructs a
\* FakeGang and leaves torch.distributed and the thread count as they are;
\* it returns the FakeGang (rank 0, size 1; on the device passed, if one
\* was), or, when no device was passed, fails in the determination of the
\* default device.  With WORLD_SIZE > 1 it goes through
\* init_default_process_group and constructs no FakeGang.
C8_FakeWhenAloneAmended ==
    /\ [](ret.op = "setup_default_gang" =>
            /\ C8_WorldSizeOne =>
                  /\ "FakeGang" \in ret.called
                  /\ "init_default_process_group" \notin ret.called
                  /\ C8_BackendUntouched
                  /\ \/ C8_ReturnedFake
                     \/ /\ ret.exc # NoExc /\ ret.device = NoDevice
                        /\ "_determine_default_device" \in ret.called
                  /\ ret.device # NoDevice =>
                        (C8_ReturnedFake /\ ret.gang.device = ret.device)
            /\ (get_world_size(env).exc = NoExc /\ get_world_size(env).value > 1) =>
                  /\ "init_default_process_group" \in ret.called
                  /\ "FakeGang" \notin ret.called)
    /\ [][(ret'.op = "setup_default_gang" /\ C8_WorldSizeOne)
             => (dist' = dist /\ num_threads' = num_threads)]_vars

\* setup_default_gang(device=None) with WORLD_SIZE unset failed in the
\* determination of the default device.
C8_Witness ==
    /\ ret.op = "setup_default_gang" /\ env["WORLD_SIZE"] = Unset
    /\ ret.device = NoDevice /\ ret.exc.type = "RuntimeError"
    /\ "FakeGang" \in ret.called

\* A process with torch.distributed available, on a host with or without
\* a CUDA device, that holds no gang yet.
GangInit ==
    /\ ParIdle
    /\ env = EnvEmpty
    /\ host \in [cuda_count : {0, 1}, num_cpus : {4}, affinity : {2},
                 dist_available : {TRUE}, size : 1..MaxWorld, rank : 0..(MaxWorld - 1)]
    /\ host.rank < host.size
    /\ default_device = NoDevice
    /\ dist = DistNone
    /\ num_threads = 0
    /\ gangs = << >>
    /\ ret = RetIdle
    /\ mem = MemNone

\* The calls that make, derive and close gangs; the program holds on to
\* every gang it is given.
GangNext ==
    \/ \E device \in {NoDevice, CPU} : new_FakeGang(device, TRUE)
    \/ \E device \in {NoDevice, CPU}, debug \in BOOLEAN, ok_initialized \in BOOLEAN :
          init_default_process_group(device, 0, debug, ok_initialized, TRUE)
    \/ from_default_process_group(TRUE)
    \/ \E oid \in DOMAIN gangs : \E ranks \in RankLists(gangs[oid].size) :
          create_gang_call(oid, ranks)
    \/ \E oid \in DOMAIN gangs : close(oid)

SpecGang == GangInit /\ [][GangNext]_vars

\* The ranks of the last create_gang call hold a duplicate or a rank outside
\* [0, size) of the gang it was called on.
C3_BadRanks ==
    \/ HasDuplicates(ret.ranks)
    \/ \E k \in DOMAIN ret.ranks :
          ret.ranks[k] < 0 \/ ret.ranks[k] >= gangs[ret.value].size

\* C3: create_gang with a duplicate rank or a rank outside [0, size), the
\* size itself included, fails with ValueError and does not reach
\* _do_create_gang.
C3_InvalidRanks ==
    (ret.op = "create_gang" /\ C3_BadRanks) =>
        /\ ret.exc.type = "ValueError"
        /\ "_do_create_gang" \notin ret.called

\* C14: no two gang objects of the process hold the same process group.
\* (The NON_GROUP_MEMBER sentinel, held by the gangs of groups the process
\* is not in, is no group.)
C14_ExclusiveHandle ==
    \A i, j \in DOMAIN gangs :
        (i # j /\ gangs[i].kind = "pg" /\ gangs[j].kind = "pg"
              /\ gangs[i].pg # NON_GROUP_MEMBER) =>
            gangs[i].pg # gangs[j].pg

\* ------------------------------------- one process: the gang operations

\* Most elements of a tensor.
MaxNumel == 2

\* The tensor objects the caller holds by name, each with its storage: two
\* tensors on storages of their own and a third that is a view of the first.
CallerTensors == << 1, 2, 1 >>

\* The storage and the value of the tensor object t.
storage_of(m, t) == m.tensors[t]
value_of(m, t) == m.stor[m.tensors[t]]

\* What an operation of a gang leaves behind: the exception it raised, the
\* gang it was called on and the tensors and lists of the caller.
OpResult(exc, self, m) == [exc |-> exc, self |-> self, mem |-> m]

\* dst.copy_(src): the elements of src are written into the storage dst has;
\* a src of one element is broadcast, any other src of another shape is
\* refused.
copy_(m, dst, src) ==
    LET d == value_of(m, dst)
        s == value_of(m, src)
    IN  IF Len(s) = Len(d)
        THEN [exc |-> NoExc, mem |-> [m EXCEPT !.stor[m.tensors[dst]] = s]]
        ELSE IF Len(s) = 1
        THEN [exc |-> NoExc,
              mem |-> [m EXCEPT !.stor[m.tensors[dst]] = [k \in 1..Len(d) |-> s[1]]]]
        ELSE [exc |-> Exc("RuntimeError"), mem |-> m]

\* t.clone().detach(): a new tensor object on a new storage that holds the
\* elements of t.  The new tensor is the last of m.tensors.
clone(m, t) ==
    [m EXCEPT !.stor = Append(@, value_of(m, t)),
              !.tensors = Append(@, Len(m.stor) + 1)]

\* A tensor object nothing refers to any more is freed with its storage: the
\* caller's tensors and those in output_tensors stay.  (The list holds at most
\* one tensor that is not the caller's, in slot 0.)
collect(m) ==
    LET n == Len(CallerTensors)
        own == Len(m.stor) - (Len(m.tensors) - n)
    IN  IF Len(m.tensors) <= n + 1 THEN m
        ELSE [m EXCEPT !.stor = Append(SubSeq(@, 1, own), @[Len(@)]),
                       !.tensors = Append(SubSeq(@, 1, n), own + 1),
                       !.outputs[1] = n + 1]

\* FakeGang.barrier()
fake_barrier(g, m) == OpResult(NoExc, g, m)

\* FakeGang.all_reduce(tensor, op)
fake_all_reduce(g, m, tensor, op) == OpResult(NoExc, g, m)

\* FakeGang.all_gather(output_tensor, input_tensor)
fake_all_gather(g, m, output_tensor, input_tensor) ==
    LET copied(c) == OpResult(c.exc, g, c.mem)
    IN  copied(copy_(m, output_tensor, input_tensor))

\* Mutant of fake_broadcast_objects: only a source rank above 0 is refused.
fake_broadcast_objects_above(g, m, source_rank) ==
    IF source_rank > 0 THEN OpResult(Exc("ValueError"), g, m)
    ELSE OpResult(NoExc, g, m)

\* Mutant of fake_broadcast_objects: the gang takes the source rank for its
\* own before the rank is looked at.
fake_broadcast_objects_rerank(g, m, source_rank) ==
    IF source_rank # 0
    THEN OpResult(Exc("ValueError"), [g EXCEPT !.rank = source_rank], m)
    ELSE OpResult(NoExc, g, m)

\* FakeGang.broadcast_objects(objects, source_rank); objects is m.objects.
fake_broadcast_objects(g, m, source_rank) ==
    IF source_rank # 0 THEN OpResult(Exc("ValueError"), g, m)
    ELSE OpResult(NoExc, g, m)

\* Mutant of fake_all_gather_to_list: the slot takes the input tensor itself.
fake_all_gather_to_list_no_clone(g, m, input_tensor) ==
    IF Len(m.outputs) = 0 THEN OpResult(Exc("IndexError"), g, m)
    ELSE OpResult(NoExc, g, [m EXCEPT !.outputs[1] = input_tensor])

\* FakeGang.all_gather_to_list(output_tensors, input_tensor); output_tensors
\* is m.outputs.  Assigning to slot 0 of an empty list is an IndexError.
fake_all_gather_to_list(g, m, input_tensor) ==
    LET stored(c) == [c EXCEPT !.outputs[1] = Len(c.tensors)]
    IN  IF Len(m.outputs) = 0 THEN OpResult(Exc("IndexError"), g, m)
        ELSE OpResult(NoExc, g, collect(stored(clone(m, input_tensor))))

\* The state after gangs[oid].op(args) with result r.
LocalCall(op, oid, r, args) ==
    /\ gangs' = [gangs EXCEPT ![oid] = r.self]
    /\ mem' = r.mem
    /\ ret' = [RetIdle EXCEPT !.op = op, !.exc = r.exc, !.value = oid, !.args = args,
                   !.was_initialized = is_initialized]
    /\ UNCHANGED <<env, host, default_device, dist, num_threads, parVars>>

\* gangs[oid].barrier()
barrier(oid) ==
    /\ gangs[oid].kind = "fake"
    /\ LocalCall("barrier", oid, fake_barrier(gangs[oid], mem), << >>)

\* gangs[oid].all_reduce(tensor, op)
all_reduce(oid, tensor, op) ==
    /\ gangs[oid].kind = "fake"
    /\ LocalCall("all_reduce", oid, fake_all_reduce(gangs[oid], mem, tensor, op),
                 << tensor >>)

\* gangs[oid].all_gather(output_tensor, input_tensor)
all_gather(oid, output_tensor, input_tensor) ==
    /\ gangs[oid].kind = "fake"
    /\ LocalCall("all_gather", oid,
                 fake_all_gather(gangs[oid], mem, output_tensor, input_tensor),
                 << output_tensor, input_tensor >>)

\* gangs[oid].all_gather_to_list(output_tensors, input_tensor)
all_gather_to_list(oid, input_tensor) ==
    /\ gangs[oid].kind = "fake"
    /\ LocalCall("all_gather_to_list", oid,
                 fake_all_gather_to_list(gangs[oid], mem, input_tensor),
                 << input_tensor >>)

\* gangs[oid].broadcast_objects(objects, source_rank)
broadcast_objects(oid, source_rank) ==
    /\ gangs[oid].kind = "fake"
    /\ LocalCall("broadcast_objects", oid,
                 fake_broadcast_objects(gangs[oid], mem, source_rank),
                 << source_rank >>)

\* The caller writes to a tensor in place: tensor.fill_(value).
fill_(tensor, value) ==
    /\ mem' = [mem EXCEPT !.stor[mem.tensors[tensor]] =
                              [k \in 1..Len(value_of(mem, tensor)) |-> value]]
    /\ ret' = [RetIdle EXCEPT !.op = "fill_", !.args = << tensor >>,
                   !.was_initialized = is_initialized]
    /\ UNCHANGED <<env, host, default_device, dist, num_threads, gangs, parVars>>

\* What the caller holds before it calls a gang: its tensors, the first of
\* MaxNumel elements and the second of up to as many, a list of output
\* tensors and a list of objects.
LocalMems ==
    {[stor |-> << [k \in 1..MaxNumel |-> k], [k \in 1..n |-> 0] >>,
      tensors |-> CallerTensors,
      outputs |-> outs, objects |-> objs] :
        n \in 1..MaxNumel,
        outs \in {<< >>, << 2, 3 >>},
        objs \in {<< >>, << "a", "b" >>}}

\* A process without torch.distributed in use, on a host with a CUDA device.
LocalInit ==
    /\ ParIdle
    /\ env = EnvEmpty
    /\ host = [cuda_count |-> 1, num_cpus |-> 1, affinity |-> 1,
               dist_available |-> TRUE, size |-> 1, rank |-> 0]
    /\ default_device = NoDevice
    /\ dist = DistNone
    /\ num_threads = 0
    /\ gangs = << >>
    /\ ret = RetIdle
    /\ mem \in LocalMems

\* The process builds a gang, a local one or the gang of a default group of
\* one process on the CPU, and calls its operations; the operations on
\* tensors and objects are those of the local gang.
LocalNext ==
    \/ \E device \in DeviceArgs : gangs = << >> /\ new_FakeGang(device, TRUE)
    \/ gangs = << >> /\ init_default_process_group(CPU, 0, FALSE, FALSE, TRUE)
    \/ \E oid \in DOMAIN gangs : close(oid)
    \/ \E oid \in DOMAIN gangs : \E ranks \in RankLists(gangs[oid].size) :
          create_gang_call(oid, ranks)
    \/ \E oid \in DOMAIN gangs : barrier(oid)
    \/ \E oid \in DOMAIN gangs : \E tensor \in DOMAIN CallerTensors :
          \E op \in ReduceOperation : all_reduce(oid, tensor, op)
    \/ \E oid \in DOMAIN gangs : \E output_tensor, input_tensor \in DOMAIN CallerTensors :
          all_gather(oid, output_tensor, input_tensor)
    \/ \E oid \in DOMAIN gangs : \E input_tensor \in DOMAIN CallerTensors :
          all_gather_to_list(oid, input_tensor)
    \/ \E oid \in DOMAIN gangs : \E source_rank \in (-1)..1 :
          broadcast_objects(oid, source_rank)
    \/ \E tensor \in DOMAIN mem.tensors : \E value \in {9} : fill_(tensor, value)

SpecLocal == LocalInit /\ [][LocalNext]_vars

\* C17: a FakeGang has rank 0 and size 1 whatever device it was built with
\* and whatever was called on it, and so has the gang its create_gang
\* returns, which is on the same device.
C17_FakeRankSize ==
    /\ \A oid \in DOMAIN gangs :
          gangs[oid].kind = "fake" => (gangs[oid].rank = 0 /\ gangs[oid].size = 1)
    /\ (ret.op = "FakeGang" /\ ret.exc = NoExc) =>
          /\ ret.gang.rank = 0 /\ ret.gang.size = 1
          /\ ret.device # NoDevice => ret.gang.device = ret.device
    /\ (ret.op = "create_gang" /\ ret.exc = NoExc /\ gangs[ret.value].kind = "fake") =>
          /\ ret.gang.kind = "fake"
          /\ ret.gang.rank = 0 /\ ret.gang.size = 1
          /\ ret.gang.device = gangs[ret.value].device

\* C17 witness: a FakeGang on a CUDA device that has gathered to a list
\* before returned a gang from create_gang([0]).
C17_Witness ==
    /\ ret.op = "create_gang" /\ ret.exc = NoExc /\ ret.ranks = << 0 >>
    /\ gangs[ret.value].kind = "fake" /\ gangs[ret.value].device = CudaDevice(0)
    /\ Len(mem.tensors) > Len(CallerTensors)

\* C18: no call, whether it returns or raises, changes the rank, size,
\* device or group handles of a gang the process holds.
C18_FixedFields ==
    [][\A oid \in DOMAIN gangs :
          oid \in DOMAIN gangs' /\ gangs'[oid] = gangs[oid]]_vars

\* C18 witness: create_gang with a duplicate rank was rejected on the gang of
\* a process group, which the process still holds.
C18_Witness ==
    /\ ret.op = "create_gang" /\ ret.exc.type = "ValueError"
    /\ HasDuplicates(ret.ranks)
    /\ gangs[ret.value].kind = "pg" /\ gangs[ret.value].pg = dist.world

\* C19: broadcast_objects on a FakeGang leaves the list as it is; it returns
\* with source_rank = 0 and raises ValueError with any other source_rank.
C19_LocalBroadcast ==
    [][(ret'.op = "broadcast_objects" /\ gangs[ret'.value].kind = "fake") =>
          /\ mem'.objects = mem.objects
          /\ ret'.args[1] = 0 => ret'.exc = NoExc
          /\ ret'.args[1] # 0 => ret'.exc.type = "ValueError"]_vars

\* C19 witness: broadcast_objects of a list of two objects with source_rank
\* = -1 raised ValueError.
C19_Witness ==
    /\ ret.op = "broadcast_objects" /\ ret.args = << -1 >>
    /\ ret.exc.type = "ValueError"
    /\ gangs[ret.value].kind = "fake" /\ mem.objects = << "a", "b" >>

C20_Apart == storage_of(mem, ret.args[1]) # storage_of(mem, ret.args[2])

DebugInit ==
    /\ ParIdle
    /\ env = EnvEmpty
    /\ host \in [cuda_count : {1}, num_cpus : {4}, affinity : {2},
                 dist_available : {TRUE}, size : 1..MaxWorld, rank : 0..(MaxWorld - 1)]
    /\ host.rank < host.size
    /\ default_device = NoDevice
    /\ dist = DistNone
    /\ num_threads = 0
    /\ gangs = << >>
    /\ ret = RetIdle
    /\ mem = MemNone

\* The process initialises the default group on the CPU (Gloo) or on the
\* CUDA device (NCCL), with or without debug, or asks for the one there is,
\* and derives gangs of some of their ranks from the gangs it holds.
DebugNext ==
    \/ \E device \in {CPU, CudaDevice(0)}, debug \in BOOLEAN, ok_initialized \in BOOLEAN :
          init_default_process_group(device, 0, debug, ok_initialized, TRUE)
    \/ \E oid \in DOMAIN gangs : \E members \in SUBSET (0..(gangs[oid].size - 1)) :
          create_gang_call(oid, SortedSeq(members))

SpecDebug == DebugInit /\ [][DebugNext]_vars

\* The groups dist.new_group made during the step.
C24_Made == Len(dist'.groups) - Len(dist.groups)

MaxCpus == 4
MaxAffinity == 2
MaxLocalProcs == 3

\* The device "meta", which no backend serves.
MetaDevice == [type |-> "meta", index |-> -1]

\* A process on a host of up to MaxCpus cores (0: os.cpu_count() is None)
\* with a non-empty affinity mask; nothing set, no default group yet.
ThreadsInit ==
    /\ ParIdle
    /\ env = EnvEmpty
    /\ host \in [cuda_count : {0}, num_cpus : 0..MaxCpus, affinity : 1..MaxAffinity,
                 dist_available : {TRUE}, size : {1}, rank : {0}]
    /\ default_device = NoDevice
    /\ dist = DistNone
    /\ num_threads = 0
    /\ gangs = << >>
    /\ ret = RetIdle
    /\ mem = MemNone

\* The launcher sets or clears LOCAL_WORLD_SIZE and OMP_NUM_THREADS, and the
\* process initialises the default group with or without num_threads, on
\* the CPU or on a device the call rejects after the thread budget.
ThreadsNext ==
    \/ \E n \in 0..MaxLocalProcs : setenv("LOCAL_WORLD_SIZE", IntToStr(n))
    \/ setenv("LOCAL_WORLD_SIZE", Unset)
    \/ \E value \in {<< "1" >>, << >>, Unset} : setenv("OMP_NUM_THREADS", value)
    \/ \E device \in {CPU, MetaDevice}, threads_arg \in ThreadArgs, ok_initialized \in BOOLEAN :
          init_default_process_group(device, threads_arg, FALSE, ok_initialized, FALSE)

SpecThreads == ThreadsInit /\ [][ThreadsNext]_vars

\* The environment announces more than one process on the host and fixes
\* no thread count.
C26_SharedHost ==
    /\ env["LOCAL_WORLD_SIZE"] # Unset
    /\ IsIntLiteral(env["LOCAL_WORLD_SIZE"])
    /\ IntOf(env["LOCAL_WORLD_SIZE"]) > 1
    /\ env["OMP_NUM_THREADS"] = Unset

\* C26: init_default_process_group changes the intra-op thread count only
\* if the caller passed num_threads (the count is then that value) or if
\* LOCAL_WORLD_SIZE > 1 and OMP_NUM_THREADS is not set; in that case the
\* count is min(max(cpu_count div local_procs, 1), affinity mask size) when
\* the cpu count is known, it is at least 1 and at most the size of the
\* affinity mask, and count * local_procs <= cpu_count whenever
\* cpu_count >= local_procs.
C26_ThreadBudget ==
    [][ret'.op = "init_default_process_group" =>
          LET set == "torch.set_num_threads" \in ret'.called
              passed == ret'.args[2]
              local_procs == IntOf(env["LOCAL_WORLD_SIZE"])
              share == host.num_cpus \div local_procs
              count == num_threads'
          IN  /\ (num_threads' # num_threads \/ set) => (passed # 0 \/ C26_SharedHost)
              /\ (set /\ passed # 0) => count = passed
              /\ (set /\ passed = 0) =>
                    /\ host.num_cpus > 0 =>
                          count = IF share >= 1
                                  THEN (IF share <= host.affinity THEN share ELSE host.affinity)
                                  ELSE 1
                    /\ count >= 1
                    /\ count <= host.affinity
                    /\ host.num_cpus >= local_procs => count * local_procs <= host.num_cpus
              /\ ~set => num_threads' = num_threads]_vars

\* C26 witness: three processes share a host of four cores, the mask holds
\* two, no thread count is fixed: the call made without num_threads has set
\* the count to one.
C26_Witness ==
    /\ ret.op = "init_default_process_group" /\ ret.exc = NoExc
    /\ ret.args[2] = 0
    /\ "torch.set_num_threads" \in ret.called
    /\ C26_SharedHost /\ env["LOCAL_WORLD_SIZE"] = << "3" >>
    /\ host.num_cpus = 4 /\ host.affinity = 2
    /\ num_threads = 1


====
